---------------------------- MODULE Spec2Model ----------------------------
(***************************************************************************)
(* A model of the cooperative application shell of snake_game.ino: the     *)
(* debounced keypad, the two-lane deferred event queue, the application    *)
(* lifecycle and the idle -> sleep -> wake protocol, together with the     *)
(* five applications the launcher wires (Welcome, MainMenu, Snake,         *)
(* GameOver, Pause).                                                       *)
(*                                                                         *)
(* Every C++ method is an operator from machine state to machine state.    *)
(* A machine state M is a record holding the clock, the inputs of the      *)
(* running tick and the fields of every object.  An action of the module   *)
(* is one tick of Shell::onLoop (or one blocking step inside it) and       *)
(* stores the record the handler computed into the variables.              *)
(*                                                                         *)
(* Integer widths follow the AVR target the sketch is written for          *)
(* (avr/sleep.h): unsigned long is 32 bits, uint16_t arithmetic is done in *)
(* 16 bits (int is 16 bits wide), uint8_t in 8 bits.                       *)
(* millis() is taken to be constant inside one tick; time passes between   *)
(* ticks, while halted and while busy-polling.                             *)
(***************************************************************************)
EXTENDS Integers, Sequences, FiniteSets, TLC

VARIABLES
    now,      \* millis(): the 32-bit millisecond clock, as <<high, low>>
    pc,       \* where the main context is: "run", "halted", "polling"
    keypad,   \* Keypad fields
    screen,   \* Screen fields and the panel's content
    shell,    \* Shell fields: current application, event lanes, static events
    base,     \* Application / Keypad::Listner base fields of each application
    priv,     \* the private fields of the five applications
    ghost,    \* history variables: what the claims talk about
    player,   \* who operates the buttons: "gamer", "watcher", ...
    bench     \* a CircularQueue on its own, for the laws of the ring buffer

vars == <<now, pc, keypad, screen, shell, base, priv, ghost, player, bench>>

----------------------------------------------------------------------------
(* Integer widths and the C bit operators                                  *)

U8 == 256
U16 == 65536

\* An unsigned long is kept as its two 16-bit halves <<high, low>>: the
\* arithmetic below is the 32-bit arithmetic of the code, wrap-around included.
Long(n) == <<(n \div U16) % U16, n % U16>>

ULONG_MAX == <<U16 - 1, U16 - 1>>

\* a + d, for an unsigned long a and 0 <= d < 2^16
Add32(a, d) == <<(a[1] + ((a[2] + d) \div U16)) % U16, (a[2] + d) % U16>>

\* a + b, for two unsigned longs
Sum32(a, b) == <<(a[1] + b[1] + ((a[2] + b[2]) \div U16)) % U16, (a[2] + b[2]) % U16>>

\* a - b, for two unsigned longs
Sub32(a, b) == <<(a[1] - b[1] + ((a[2] - b[2]) \div U16)) % U16, (a[2] - b[2]) % U16>>

\* a > n, for an unsigned long a and 0 <= n < 2^16
Gt32(a, n) == a[1] > 0 \/ a[2] > n

\* (uint16_t) a
Low16(a) == a[2]

RECURSIVE BitAnd(_, _)
BitAnd(a, b) ==
    IF a = 0 \/ b = 0 THEN 0
    ELSE (a % 2) * (b % 2) + 2 * BitAnd(a \div 2, b \div 2)

RECURSIVE BitXor(_, _)
BitXor(a, b) ==
    IF a = 0 THEN b
    ELSE IF b = 0 THEN a
    ELSE ((a + b) % 2) + 2 * BitXor(a \div 2, b \div 2)

RECURSIVE BitOr(_, _)
BitOr(a, b) ==
    IF a = 0 THEN b
    ELSE IF b = 0 THEN a
    ELSE (IF (a % 2) + (b % 2) > 0 THEN 1 ELSE 0) + 2 * BitOr(a \div 2, b \div 2)

\* ~flags on a uint8_t
BitNot8(a) == (U8 - 1) - a

----------------------------------------------------------------------------
(* Direction / Button                                                      *)

Left == 0
Right == 4
Up == 1
Down == 3
Center == 2

Buttons == {Left, Up, Center, Down, Right}

opposite(direction) == (4 - direction) % U8

mask(direction) == (2 ^ direction) % U8

----------------------------------------------------------------------------
(* CircularQueue<T, Cap>.  m_data is kept for the slots written so far; a  *)
(* slot never written reads as the zero-initialised value zero.            *)

NULL == "null"

EmptyQueue == [m_data |-> <<>>, m_front |-> 0, m_back |-> 0]

slot(q, i, zero) == IF i + 1 \in DOMAIN q.m_data THEN q.m_data[i + 1] ELSE zero

\* m_data[i] = x, the sequence grown with zero up to slot i when needed
store(q, i, x, zero) ==
    [k \in 1..(IF Len(q.m_data) > i + 1 THEN Len(q.m_data) ELSE i + 1) |->
        IF k = i + 1 THEN x ELSE slot(q, k - 1, zero)]

cq_clear(q) == [q EXCEPT !.m_front = 0, !.m_back = 0]

size(q, Cap) == (((q.m_back + Cap) - q.m_front) % Cap) % U8

\* variant: a full queue refuses the element
push_back_checked(q, Cap, pt, zero) ==
    IF size(q, Cap) = Cap - 1 THEN q
    ELSE [q EXCEPT !.m_data = store(q, q.m_back, pt, zero),
                   !.m_back = (q.m_back + 1) % Cap]

push_back(q, Cap, pt, zero) ==
    [q EXCEPT !.m_data = store(q, q.m_back, pt, zero),
              !.m_back = (q.m_back + 1) % Cap]

pop_front(q, Cap) == [q EXCEPT !.m_front = (q.m_front + 1) % Cap]

\* variant: the index is counted from slot 0
at_fromZero(q, Cap, idx, zero) == slot(q, idx % Cap, zero)

at(q, Cap, idx, zero) == slot(q, (idx + q.m_front) % Cap, zero)

front(q, zero) == slot(q, q.m_front, zero)

back(q, Cap, zero) == slot(q, (q.m_back + Cap - 1) % Cap, zero)

----------------------------------------------------------------------------
(* Keypad::ButtonSet: the m_flags byte                                     *)

\* variant: the changed buttons, without the mask by the new state
notIn_changed(flags, old) == BitXor(flags, old)

notIn(flags, old) == BitAnd(BitXor(flags, old), flags)

difference(flags, old) == BitXor(flags, old)

empty(flags) == flags = 0

MaxIdleTime == 15000
MaxPressTime == 300

EventKeyPress == 1
EventLongKeyPress == 2
EventKeyRelease == 4
AllEvents == BitOr(BitOr(EventKeyPress, EventLongKeyPress), EventKeyRelease)

----------------------------------------------------------------------------
(* Point16x16: x in the low nibble, y in the high nibble of one byte       *)

Point(x, y) == BitOr((y * 16) % U8, x) % U8

setX(m_data, x) == BitOr(BitAnd(m_data, 240), x) % U8

setY(m_data, y) == BitOr(BitAnd(m_data, 15), (y * 16) % U8) % U8

px(m_data) == BitAnd(m_data, 15)

py(m_data) == m_data \div 16

----------------------------------------------------------------------------
(* History: the calls of the running tick, in order                        *)

Log(M, e) == [M EXCEPT !.ghost.log = Append(@, e)]

Logged(kind) == {i \in DOMAIN ghost.log : ghost.log[i][1] = kind}

----------------------------------------------------------------------------
(* Screen.  panel is the frame buffer reduced to "blank" (every pixel LOW  *)
(* for certain: nothing was drawn since fillScreen(LOW)) or "drawn";       *)
(* shown is the content of the last m_panel.write().                       *)

touch(M, content) ==
    [M EXCEPT !.screen.panel = content, !.screen.m_modified = TRUE,
              !.ghost.inked = TRUE]

drawPixel(M) == touch(M, "drawn")

clearPixel(M) == touch(M, M.screen.panel)

drawChar(M) == touch(M, "drawn")

drawCenterText(M) == touch(M, "drawn")

drawBitmap(M) == touch(M, "drawn")

clearBitmap(M) == touch(M, M.screen.panel)

screen_clear(M) == touch(M, "blank")

panel_write(M) ==
    Log([M EXCEPT !.screen.shown = M.screen.panel,
                  !.ghost.blind = @ \/ ~M.ghost.inked,
                  !.ghost.inked = FALSE], <<"write">>)

Screen_onLoop(M) ==
    LET M1 == IF M.screen.m_modified THEN panel_write(M) ELSE M
    IN  [M1 EXCEPT !.screen.m_modified = FALSE]

\* variant: the frame buffer is sent to the panel as it is
Screen_onPrepareSleep_keep(M) == panel_write(M)

Screen_onPrepareSleep(M) == panel_write(screen_clear(M))

Screen_onWakeUp(M) == M

----------------------------------------------------------------------------
(* ReservedEventQueue: the system lane and the application lane.  An event *)
(* is the address of one of five static Callable objects.                  *)

EventCap == 3

Apps == {"welcome", "mainMenu", "snake", "gameOver", "pause"}

\* an event joins a lane: the events scheduled and not yet returned, oldest
\* first; a lane that already holds EventCap - 1 of them spills
scheduled(g, lane, event) ==
    [g EXCEPT !.spilled = @ \/ Len(g.lanes[lane]) >= EventCap - 1,
              !.lanes[lane] = IF Len(@) < EventCap THEN Append(@, event) ELSE @]

\* popNextEvent() returned the oldest event of a lane
returned(g, lane, event) ==
    [g EXCEPT !.took = [lane |-> lane, event |-> event, before |-> g.lanes],
              !.lanes[lane] = IF @ # <<>> THEN Tail(@) ELSE @]

scheduleSysEvent(M, event) ==
    [M EXCEPT !.shell.m_sysEvents = push_back(@, EventCap, event, NULL),
              !.ghost = scheduled([@ EXCEPT !.sysLive = @ + 1], "sys", event)]

scheduleShellEvent(M, event) ==
    [M EXCEPT !.shell.m_shellEvents = push_back(@, EventCap, event, NULL),
              !.ghost = scheduled([@ EXCEPT !.shellLive = @ + 1], "shell", event)]

\* variant: the application lane is served first
nextLane_shellFirst(sh) ==
    IF size(sh.m_shellEvents, EventCap) # 0 THEN "shell"
    ELSE IF size(sh.m_sysEvents, EventCap) # 0 THEN "sys"
    ELSE "none"

\* the lane popNextEvent() takes from: "sys", "shell" or "none"
nextLane(sh) ==
    IF size(sh.m_sysEvents, EventCap) # 0 THEN "sys"
    ELSE IF size(sh.m_shellEvents, EventCap) # 0 THEN "shell"
    ELSE "none"

\* the Callable* popNextEvent() returns
nextEvent(sh) ==
    CASE nextLane(sh) = "sys" -> front(sh.m_sysEvents, NULL)
      [] nextLane(sh) = "shell" -> front(sh.m_shellEvents, NULL)
      [] OTHER -> NULL

\* variant: the event returned stays in its lane
popNextEvent_peek(M) ==
    CASE nextLane(M.shell) = "sys" ->
            [M EXCEPT !.ghost = returned([@ EXCEPT !.sysLive = IF @ > 0 THEN @ - 1 ELSE 0],
                                         "sys", nextEvent(M.shell))]
      [] nextLane(M.shell) = "shell" ->
            [M EXCEPT !.ghost = returned([@ EXCEPT !.shellLive = IF @ > 0 THEN @ - 1 ELSE 0],
                                         "shell", nextEvent(M.shell))]
      [] OTHER -> M

\* the queue after popNextEvent()
popNextEvent(M) ==
    CASE nextLane(M.shell) = "sys" ->
            [M EXCEPT !.shell.m_sysEvents = pop_front(@, EventCap),
                      !.ghost = returned([@ EXCEPT !.sysLive = IF @ > 0 THEN @ - 1 ELSE 0],
                                         "sys", nextEvent(M.shell))]
      [] nextLane(M.shell) = "shell" ->
            [M EXCEPT !.shell.m_shellEvents = pop_front(@, EventCap),
                      !.ghost = returned([@ EXCEPT !.shellLive = IF @ > 0 THEN @ - 1 ELSE 0],
                                         "shell", nextEvent(M.shell))]
      [] OTHER -> M

----------------------------------------------------------------------------
(* Shell::onIdle and Shell::scheduleApplication                            *)

\* no isolated switch is being followed
NoPlan == [from |-> NULL, to |-> NULL, age |-> 0]

\* the idle listener is notified
idleNotified(g) ==
    [g EXCEPT !.idleFound = [sys |-> g.sysLive, since |-> g.sinceIdle],
              !.sinceIdle = <<"idle">>,
              !.idles = IF @ < 2 THEN @ + 1 ELSE @,
              !.idlesArmed = IF @ < 2 THEN @ + 1 ELSE @]

\* variant: the wake event is queued together with the other two
onIdle_eager(M) ==
    LET M1 == Log([M EXCEPT !.ghost = idleNotified(@)], <<"onIdle">>)
        M2 == scheduleSysEvent(M1, "SleepNotifierCallable")
    IN  scheduleSysEvent(scheduleSysEvent(M2, "SleepCallable"),
                         "NotifiWakeUpCallable")

onIdle(M) ==
    LET M1 == Log([M EXCEPT !.ghost = idleNotified(@)], <<"onIdle">>)
        M2 == scheduleSysEvent(M1, "SleepNotifierCallable")
    IN  scheduleSysEvent(M2, "SleepCallable")

\* variant: the previous application is not notified
scheduleApplication_startOnly(M, app) ==
    LET M0 == Log([M EXCEPT !.ghost.owed = @ \cup {app},
                            !.ghost.switches = @ + 1,
                            !.ghost.plan =
                                IF nextLane(M.shell) = "none"
                                THEN [from |-> M.shell.m_currentApplication,
                                      to |-> app, age |-> 0]
                                ELSE NoPlan],
                  <<"scheduleApplication", app>>)
    IN  scheduleShellEvent([M0 EXCEPT !.shell.startEvent_app = app],
                           "StartAppCallable")

scheduleApplication(M, app) ==
    LET M0 == Log([M EXCEPT !.ghost.owed = @ \cup {app},
                            !.ghost.switches = @ + 1,
                            !.ghost.plan =
                                IF nextLane(M.shell) = "none"
                                THEN [from |-> M.shell.m_currentApplication,
                                      to |-> app, age |-> 0]
                                ELSE NoPlan],
                  <<"scheduleApplication", app>>)
        M1 == IF M0.shell.m_currentApplication # NULL
              THEN scheduleShellEvent(
                       [M0 EXCEPT !.shell.notifyEvent_app =
                                       M0.shell.m_currentApplication],
                       "NotifyPrevAppCallable")
              ELSE M0
    IN  scheduleShellEvent([M1 EXCEPT !.shell.startEvent_app = app],
                           "StartAppCallable")

----------------------------------------------------------------------------
(* Keypad::Listner and Application base: event gating, loop interval       *)

enableEvent(M, a, flags) ==
    [M EXCEPT !.base[a].m_flags = BitOr(@, flags),
              !.ghost.heard.wired = @ \cup {a}]

disableEvent(M, a, flags) ==
    [M EXCEPT !.base[a].m_flags = BitAnd(@, BitNot8(flags)),
              !.ghost.heard.muted =
                  IF BitAnd(M.base[a].m_flags, BitNot8(flags)) = 0
                  THEN @ \cup {a} ELSE @]

loopEvery(M, a, delay) == [M EXCEPT !.base[a].m_loopDelay = delay % U16]

timeSinceLastLoop(M, a) == Low16(Sub32(M.now, M.base[a].m_lastLoopTime))

loopDelay(M, a) == M.base[a].m_loopDelay

----------------------------------------------------------------------------
(* The launcher's wiring (ApplicationLauncher::setup)                      *)

welcome_nextApp == "mainMenu"
mainMenu_nextApp == "snake"
gameOver_nextApp == "mainMenu"
snake_gameOverApp == "gameOver"
snake_pauseGameApp == "pause"
pause_snakeGameApp == "snake"
pause_mainMenuApp == "mainMenu"

----------------------------------------------------------------------------
(* WelcomeApplication                                                      *)

welcome_exit(M) ==
    scheduleApplication(disableEvent(M, "welcome", AllEvents), welcome_nextApp)

welcome_draw(M, a, r, m, o) == IF a \/ r \/ m \/ o THEN drawChar(M) ELSE M

welcome_onLoop(M) ==
    LET f == M.priv.welcome_frame
        M1 == CASE f = 0 -> welcome_draw(M, TRUE, FALSE, FALSE, FALSE)
                [] f = 1 -> welcome_draw(M, TRUE, TRUE, FALSE, FALSE)
                [] f = 2 -> welcome_draw(M, TRUE, TRUE, TRUE, FALSE)
                [] f = 3 -> loopEvery(welcome_draw(M, TRUE, TRUE, TRUE, TRUE),
                                      "welcome", 250)
                [] f > 3 /\ f <= 9 ->
                       IF f % 2 = 0 THEN screen_clear(M)
                       ELSE welcome_draw(M, TRUE, TRUE, TRUE, TRUE)
                [] OTHER -> welcome_exit(M)
    IN  [M1 EXCEPT !.priv.welcome_frame = (f + 1) % U8]

welcome_onActivate(M) ==
    LET M1 == enableEvent(M, "welcome", AllEvents)
        M2 == [M1 EXCEPT !.priv.welcome_frame = 0]
    IN  screen_clear(loopEvery(M2, "welcome", 500))

----------------------------------------------------------------------------
(* MainMenuApplication                                                     *)

mainMenu_exit(M) ==
    scheduleApplication(disableEvent(M, "mainMenu", AllEvents), mainMenu_nextApp)

mainMenu_onActivate(M) ==
    LET M1 == [M EXCEPT !.priv.mainMenu_frame = 255]
        M2 == enableEvent(M1, "mainMenu", AllEvents)
    IN  loopEvery(screen_clear(M2), "mainMenu", 500)

mainMenu_onLoop(M) ==
    LET M1 == IF M.priv.mainMenu_frame = 255
              THEN [drawBitmap(M) EXCEPT !.priv.mainMenu_frame = 2]
              ELSE M
        M2 == [M1 EXCEPT !.priv.mainMenu_frame = (@ + 1) % 3]
    IN  drawPixel(M2)

\* variant: the main menu goes to its wake-up application when woken
mainMenu_onWakeUp_welcome(M) ==
    scheduleApplication([M EXCEPT !.priv.mainMenu_frame = 255], "welcome")


mainMenu_onWakeUp(M) == [M EXCEPT !.priv.mainMenu_frame = 255]

----------------------------------------------------------------------------
(* Board16x16 and SnakeGameApplication.  The random() draws of one tick    *)
(* are inputs of the tick: M.in.rnd (random(256)), M.in.seedX and          *)
(* M.in.seedY (random(16)), M.in.jumpX and M.in.jumpY (prime[random(5)]);  *)
(* seedY and jumpY are drawn anew for each column the scan visits.  The    *)
(* memset of Board16x16 clears twice the size of m_bits: M.in.spill says   *)
(* where in the snake's storage the 32 bytes behind the board lie, if      *)
(* they lie there at all.                                                  *)

SnakeCap == 256

snakeAt(M, idx) == at(M.priv.m_snake, SnakeCap, idx, 0)

snakeSize(M) == size(M.priv.m_snake, SnakeCap)

\* Board16x16::set(const SnakeType&): the cells whose bit is set
boardSet(M) == {snakeAt(M, idx) : idx \in 0..(snakeSize(M) - 1)}

check(board, pt) == pt \in board

RECURSIVE scanColumn(_, _, _, _, _)
scanColumn(board, x, y, jumpY, j) ==
    IF j >= 16 THEN -1
    ELSE IF ~check(board, Point(x, y)) THEN Point(x, y)
    ELSE scanColumn(board, x, (y + jumpY) % 16, jumpY, j + 1)

RECURSIVE scanBoard(_, _, _, _, _, _)
scanBoard(board, x, jumpX, seedY, jumpY, i) ==
    IF i >= 16 THEN Point(0, 0)
    ELSE LET found == scanColumn(board, x, seedY[i], jumpY[i], 0)
         IN  IF found # -1 THEN found
             ELSE scanBoard(board, (x + jumpX) % 16, jumpX, seedY, jumpY, i + 1)

findFreePoint(M, board, seed) ==
    IF ~check(board, seed) THEN seed
    ELSE scanBoard(board, M.in.seedX, M.in.jumpX, M.in.seedY, M.in.jumpY, 0)

\* the 32 bytes behind the board lie outside the objects of the model
NoSpill == 0 - 1

\* memset(m_bits, 0, sizeof(m_bits) * sizeof(m_bits[0])): the bytes
\* M.in.spill .. M.in.spill + 31 of the snake's CircularQueue (m_data, one
\* byte per Point, then m_front and m_back) are cleared with the board
memset_m_bits(M) ==
    LET k == M.in.spill
        q == M.priv.m_snake
        hit(first, last) == k <= first /\ last < k + 32
    IN  IF k = NoSpill THEN M
        ELSE [M EXCEPT !.priv.m_snake =
                 [m_data |-> [s \in 1..SnakeCap |->
                                 IF hit(s - 1, s - 1) THEN 0 ELSE q.m_data[s]],
                  m_front |-> IF hit(SnakeCap, SnakeCap + 1) THEN 0 ELSE q.m_front,
                  m_back |-> IF hit(SnakeCap + 2, SnakeCap + 3) THEN 0 ELSE q.m_back]]

\* variant: the random cell is taken whether the snake lies on it or not
makeApple_seed(M) ==
    [M EXCEPT !.priv.m_apple = Point(M.in.rnd \div 16, M.in.rnd % 16)]


makeApple(M) ==
    LET x == M.in.rnd \div 16
        y == M.in.rnd % 16
        M1 == memset_m_bits(M)
    IN  [M1 EXCEPT !.priv.m_apple = findFreePoint(M1, boardSet(M1), Point(x, y))]

drawSnakeAndApple(M) == drawPixel(M)

\* history: no move was made since the snake was laid out
NoMove == 0 - 1


startGame(M) ==
    LET M1 == loopEvery(screen_clear(M), "snake", 320)
        M2 == IF M1.priv.m_resetSnake
              THEN LET q0 == cq_clear(M1.priv.m_snake)
                       q1 == push_back(q0, SnakeCap, Point(6, 7), 0)
                       q2 == push_back(q1, SnakeCap, Point(7, 7), 0)
                       q3 == push_back(q2, SnakeCap, Point(8, 7), 0)
                   IN  [makeApple([M1 EXCEPT !.priv.m_snake = q3])
                            EXCEPT !.priv.m_direction = Right,
                                   !.ghost.went = NoMove,
                                   !.ghost.segments = 3]
              ELSE M1
    IN  drawSnakeAndApple(M2)

snake_onActivate(M) ==
    [startGame(enableEvent(M, "snake", AllEvents))
        EXCEPT !.priv.m_acceptEventsUntillLoop = TRUE]

schedulePause(M) ==
    scheduleApplication(disableEvent(M, "snake", AllEvents), snake_pauseGameApp)

gameOver(M) ==
    LET M1 == disableEvent(M, "snake", AllEvents)
        M2 == [M1 EXCEPT !.priv.gameOver_snake = "snake.m_snake",
                         !.priv.m_resetSnake = IF M.priv.part_000 THEN @ ELSE TRUE]
    IN  scheduleApplication(M2, snake_gameOverApp)

\* the cell the head moves to
nextHead(M) ==
    LET fill == back(M.priv.m_snake, SnakeCap, 0)
        d == M.priv.m_direction
    IN  CASE d = Left  -> setX(fill, (px(fill) + 16 - 1) % 16)
          [] d = Right -> setX(fill, (px(fill) + 1) % 16)
          [] d = Up    -> setY(fill, (py(fill) + 16 - 1) % 16)
          [] d = Down  -> setY(fill, (py(fill) + 1) % 16)
          [] OTHER     -> fill

\* MoveRes
moveRes(M) ==
    IF \E idx \in 0..(snakeSize(M) - 1) : nextHead(M) = snakeAt(M, idx)
    THEN "SelfHit"
    ELSE IF nextHead(M) = M.priv.m_apple THEN "AppleHit"
    ELSE "Regular"

moveSnake(M) ==
    LET res == moveRes(M)
        pushed == push_back(M.priv.m_snake, SnakeCap, nextHead(M), 0)
        M1 == [M EXCEPT !.ghost.moves = @ + 1,
                        !.ghost.went = M.priv.m_direction,
                        !.ghost.turned = @ \cup {<<M.ghost.went, M.priv.m_direction>>},
                        !.ghost.segments = IF res = "AppleHit" THEN @ + 1 ELSE @,
                        !.ghost.peak = IF res = "SelfHit" THEN @
                                       ELSE M.ghost.segments + 1]
    IN  CASE res = "SelfHit"  -> M1
          [] res = "AppleHit" -> [M1 EXCEPT !.priv.m_snake = pushed]
          [] OTHER -> [M1 EXCEPT !.priv.m_snake = pop_front(pushed, SnakeCap)]

roll(M) ==
    LET res == moveRes(M)
        M1 == drawPixel(drawPixel(Log(moveSnake(M), <<"move", res, M.priv.m_direction>>)))
    IN  CASE res = "Regular"  -> clearPixel(M1)
          [] res = "AppleHit" -> drawPixel(makeApple(M1))
          [] OTHER -> gameOver(M1)

snake_onLoop(M) == [roll(M) EXCEPT !.priv.m_acceptEventsUntillLoop = TRUE]

----------------------------------------------------------------------------
(* GameOverApplication and PauseGameApplication                            *)

gameOver_exit(M) ==
    scheduleApplication(disableEvent(M, "gameOver", AllEvents), gameOver_nextApp)

gameOver_onActivate(M) ==
    LET M1 == screen_clear(enableEvent(M, "gameOver", AllEvents))
    IN  [loopEvery(M1, "gameOver", 400) EXCEPT !.priv.gameOver_frame = 0]

gameOver_onKey(M) == IF M.priv.gameOver_frame > 6 THEN gameOver_exit(M) ELSE M

gameOver_onLoop(M) ==
    LET M1 == screen_clear(M)
        f == M.priv.gameOver_frame
        M2 == IF snakeSize(M) = 0 THEN M1
              ELSE IF f % 2 = 0 THEN clearPixel(M1) ELSE drawPixel(M1)
        M3 == [M2 EXCEPT !.priv.gameOver_frame = (f + 1) % U8]
    IN  IF f > 6 THEN drawCenterText(M1)
        ELSE loopEvery(M3, "gameOver",
                 (loopDelay(M3, "gameOver") - (loopDelay(M3, "gameOver") \div 10)) % U16)


exitToMainMenu(M) ==
    LET M1 == disableEvent(M, "pause", AllEvents)
    IN  scheduleApplication([M1 EXCEPT !.priv.m_resetSnake =
                                           IF M.priv.part_000 THEN @ ELSE TRUE],
                            pause_mainMenuApp)

\* variant: resuming the game resets the snake
continueToSnakeGame_reset(M) ==
    LET M1 == disableEvent(M, "pause", AllEvents)
    IN  scheduleApplication([M1 EXCEPT !.priv.m_resetSnake = TRUE],
                            pause_snakeGameApp)


continueToSnakeGame(M) ==
    LET M1 == disableEvent(M, "pause", AllEvents)
    IN  scheduleApplication([M1 EXCEPT !.priv.m_resetSnake = FALSE],
                            pause_snakeGameApp)

pause_onActivate(M) ==
    LET M1 == [M EXCEPT !.priv.pause_frame = 255]
    IN  loopEvery(screen_clear(enableEvent(M1, "pause", AllEvents)), "pause", 400)

pause_onKeyPress(M, btn) ==
    IF btn = Center THEN continueToSnakeGame(M) ELSE exitToMainMenu(M)

pause_onLoop(M) ==
    LET M1 == IF M.priv.pause_frame = 255
              THEN [drawBitmap(M) EXCEPT !.priv.pause_frame = 0]
              ELSE M
        M2 == clearBitmap(M1)
        M3 == [M2 EXCEPT !.priv.pause_frame = (@ + 1) % 4]
    IN  IF M3.priv.pause_frame = 0 THEN touch(M3, M3.screen.panel)
        ELSE drawBitmap(M3)

pause_onWakeUp(M) == [M EXCEPT !.priv.pause_frame = 255]

----------------------------------------------------------------------------
(* Application: the timed loop, and the virtual calls of the five classes  *)

\* history: a call reaches application a; astray collects the applications
\* called while not current, or not active
delivered(M, a) ==
    IF a = M.shell.m_currentApplication /\ a \in M.ghost.active THEN M
    ELSE [M EXCEPT !.ghost.astray = @ \cup {a}]


\* the snake's cells, tail first
Body(M) == [i \in 1..snakeSize(M) |-> snakeAt(M, i - 1)]

\* history: what the game holds when it stops being the current application
parkedAt(M) ==
    [snake |-> Body(M), direction |-> M.priv.m_direction, apple |-> M.priv.m_apple]


onLoop(M, a) ==
    LET M1 == Log(M, <<"onLoop", a>>)
    IN  CASE a = "welcome"  -> welcome_onLoop(M1)
          [] a = "mainMenu" -> mainMenu_onLoop(M1)
          [] a = "snake"    -> snake_onLoop(M1)
          [] a = "gameOver" -> gameOver_onLoop(M1)
          [] a = "pause"    -> pause_onLoop(M1)

\* application a is activated or woken: no update executed since
restarted(g, a) ==
    [g EXCEPT !.upd = [app |-> a, fresh |-> TRUE, since |-> 0, called |-> FALSE]]

\* the update of application a is executed
updated(g, a) ==
    [g EXCEPT !.upd = [app |-> a, fresh |-> FALSE, since |-> 0,
                       called |-> g.upd.app = a /\ g.upd.called]]

\* loop() of application a is called and executes the update or not
looped(g, a, delay, executed) ==
    LET g1 == [g EXCEPT !.ran = [app |-> a, executed |-> executed, delay |-> delay,
                                 first |-> g.upd.app # a \/ g.upd.fresh,
                                 next |-> g.upd.app = a /\ ~g.upd.called,
                                 elapsed |-> g.upd.since],
                         !.upd.called = g.upd.app = a]
    IN  IF executed THEN updated(g1, a) ELSE g1

loop(M, a) ==
    LET last == M.base[a].m_lastLoopTime
        executes == \/ M.base[a].m_loopDelay = 0
                    \/ last = ULONG_MAX
                    \/ Gt32(Sub32(M.now, last), M.base[a].m_loopDelay)
        M1 == Log([delivered(M, a) EXCEPT
                       !.ghost = looped(@, a, M.base[a].m_loopDelay, executes)],
                  <<"loop", a>>)
    IN  IF M1.base[a].m_loopDelay = 0 THEN onLoop(M1, a)
        ELSE IF last = ULONG_MAX
                \/ Gt32(Sub32(M1.now, last), M1.base[a].m_loopDelay)
             THEN onLoop([M1 EXCEPT !.base[a].m_lastLoopTime = M1.now], a)
             ELSE M1

earlyLoop(M, a) ==
    onLoop([M EXCEPT !.base[a].m_lastLoopTime = M.now,
                     !.ghost = updated(@, a)], a)

onActivate(M, a) ==
    CASE a = "welcome"  -> welcome_onActivate(M)
      [] a = "mainMenu" -> mainMenu_onActivate(M)
      [] a = "snake"    -> snake_onActivate(M)
      [] a = "gameOver" -> gameOver_onActivate(M)
      [] a = "pause"    -> pause_onActivate(M)

activate(M, a) ==
    LET M1 == Log([M EXCEPT !.ghost.active = @ \cup {a},
                            !.ghost.owed = @ \ {a}], <<"activate", a>>)
    IN  onActivate([M1 EXCEPT !.base[a].m_loopDelay = 0,
                              !.base[a].m_lastLoopTime = ULONG_MAX,
                              !.ghost = restarted(@, a)], a)

\* onDeactivate() is empty in the five classes
deactivate(M, a) ==
    Log([M EXCEPT !.ghost.active = @ \ {a},
                  !.ghost.parked = IF a = "snake" THEN parkedAt(M) ELSE @],
        <<"deactivate", a>>)

\* onPrepareSleep() is empty in the five classes
prepareSleep(M, a) == Log(delivered(M, a), <<"prepareSleep", a>>)

onWakeUp(M, a) ==
    CASE a = "mainMenu" -> mainMenu_onWakeUp(M)
      [] a = "snake"    -> schedulePause(M)
      [] a = "pause"    -> pause_onWakeUp(M)
      [] OTHER          -> M

\* variant: the time of the last update survives the sleep
wakeUp_keepTime(M, a) ==
    onWakeUp(Log([delivered(M, a) EXCEPT !.ghost = restarted(@, a)],
                 <<"wakeUp", a>>), a)

wakeUp(M, a) ==
    onWakeUp(Log([delivered(M, a) EXCEPT
                      !.base[a].m_lastLoopTime =
                          IF M.priv.part_000 THEN @ ELSE ULONG_MAX,
                      !.ghost = restarted(@, a)],
                 <<"wakeUp", a>>), a)

----------------------------------------------------------------------------
(* The key handlers and Keypad::Listner's gates                            *)

\* history: a handler of listener a for the event kind runs
handled(g, a, kind, flags) ==
    [g EXCEPT !.heard.ungated = @ \/ BitAnd(flags, kind) = 0,
              !.heard.late = @ \/ a \in g.heard.muted]

\* history: opposite(btn) is evaluated
opposed(M, btn) == [M EXCEPT !.ghost.opposed = @ \cup {btn}]

\* variant: the reversal test comes before the test for Center
snake_onKeyPress_reversalFirst(M, btn) ==
    IF opposite(btn) = M.priv.m_direction THEN opposed(M, btn)
    ELSE IF btn = Center THEN schedulePause(opposed(M, btn))
    ELSE [opposed(M, btn) EXCEPT !.priv.m_direction = btn]

snake_onKeyPress(M, btn) ==
    IF btn = Center THEN schedulePause(M)
    ELSE IF ~M.priv.m_acceptEventsUntillLoop THEN M
    ELSE IF opposite(btn) = M.priv.m_direction THEN opposed(M, btn)
    ELSE LET M1 == [opposed(M, btn) EXCEPT !.priv.m_direction = btn]
             speed == loopDelay(M1, "snake")
             timeSince == timeSinceLastLoop(M1, "snake")
         IN  IF ((timeSince - speed) % U16) > (speed \div 10)
             THEN earlyLoop(M1, "snake")
             ELSE [M1 EXCEPT !.priv.m_acceptEventsUntillLoop = FALSE]

snake_onLongKeyPress(M, btn) ==
    IF btn = Center THEN M
    ELSE IF btn = M.priv.m_direction THEN loopEvery(M, "snake", 50)
    ELSE M

snake_onKeyRelease(M, btn) == loopEvery(M, "snake", 320)

onKeyPress(M, a, btn) ==
    LET M1 == Log([delivered(M, a) EXCEPT !.ghost = handled(@, a, EventKeyPress,
                                               M.base[a].m_flags)],
                  <<"onKeyPress", a, btn>>)
    IN  CASE a = "snake"    -> snake_onKeyPress(M1, btn)
          [] a = "gameOver" -> gameOver_onKey(M1)
          [] a = "pause"    -> pause_onKeyPress(M1, btn)
          [] a = "mainMenu" -> IF M.priv.part_000 /\ btn = Center
                               THEN mainMenu_exit(M1) ELSE M1
          [] OTHER          -> M1

onLongKeyPress(M, a, btn) ==
    LET M1 == Log([delivered(M, a) EXCEPT !.ghost = handled(@, a, EventLongKeyPress,
                                               M.base[a].m_flags)],
                  <<"onLongKeyPress", a, btn>>)
    IN  CASE a = "snake"    -> snake_onLongKeyPress(M1, btn)
          [] a = "gameOver" -> gameOver_onKey(M1)
          [] OTHER          -> M1

onKeyRelease(M, a, btn) ==
    LET M1 == Log([delivered(M, a) EXCEPT !.ghost = handled(@, a, EventKeyRelease,
                                               M.base[a].m_flags)],
                  <<"onKeyRelease", a, btn>>)
    IN  CASE a = "welcome"  -> welcome_exit(M1)
          [] a = "mainMenu" -> IF ~M.priv.part_000 /\ btn = Center
                               THEN mainMenu_exit(M1) ELSE M1
          [] a = "snake"    -> snake_onKeyRelease(M1, btn)
          [] a = "gameOver" -> gameOver_onKey(M1)
          [] OTHER          -> M1

\* variant: the key-release notification ignores the listener's flags
notifyKeyRelease_always(M, a, btn) == onKeyRelease(M, a, btn)

notifyKeyPress(M, a, btn) ==
    IF BitAnd(M.base[a].m_flags, EventKeyPress) # 0
    THEN onKeyPress(M, a, btn) ELSE M

notifyLongKeyPress(M, a, btn) ==
    IF BitAnd(M.base[a].m_flags, EventLongKeyPress) # 0
    THEN onLongKeyPress(M, a, btn) ELSE M

notifyKeyRelease(M, a, btn) ==
    IF BitAnd(M.base[a].m_flags, EventKeyRelease) # 0
    THEN onKeyRelease(M, a, btn) ELSE M

----------------------------------------------------------------------------
(* Keypad                                                                  *)

\* variant: a change of the buttons does not restart the idle timer
updateIdle_noRestart(M, oldState, newState) ==
    IF oldState # newState THEN M
    ELSE IF M.keypad.m_idleStart = ULONG_MAX THEN M
    ELSE IF Gt32(Sub32(M.now, M.keypad.m_idleStart), MaxIdleTime)
         THEN [(IF M.keypad.m_idleListner # NULL THEN onIdle(M) ELSE M)
                   EXCEPT !.keypad.m_idleStart = ULONG_MAX]
         ELSE M

updateIdle(M, oldState, newState) ==
    IF oldState # newState THEN [M EXCEPT !.keypad.m_idleStart = M.now]
    ELSE IF M.keypad.m_idleStart = ULONG_MAX THEN M
    ELSE IF Gt32(Sub32(M.now, M.keypad.m_idleStart), MaxIdleTime)
         THEN [(IF M.keypad.m_idleListner # NULL THEN onIdle(M) ELSE M)
                   EXCEPT !.keypad.m_idleStart = ULONG_MAX]
         ELSE M

\* history: the keypad tells its listener that btn went down (1) or up (0);
\* retold collects the notifications that repeat the one before
told(g, btn, down) ==
    [g EXCEPT !.told[btn] = down,
              !.retold = IF g.told[btn] = down THEN @ \cup {<<btn, down>>} ELSE @]


justPressedStep(M, btn) ==
    notifyKeyPress(Log([M EXCEPT !.keypad.m_buttonPressTime[btn] = M.now,
                                 !.ghost = told(@, btn, 1)],
                       <<"keyPress", btn>>),
                   M.keypad.m_listner, btn)

longTimePressedStep(M, btn) ==
    IF Gt32(Sub32(M.now, M.keypad.m_buttonPressTime[btn]), MaxPressTime)
    THEN notifyLongKeyPress(Log([M EXCEPT !.ghost.longs[btn] =
                                               IF @ < 2 THEN @ + 1 ELSE @],
                                <<"longKeyPress", btn>>),
                            M.keypad.m_listner, btn)
    ELSE M

justReleasedStep(M, btn) ==
    notifyKeyRelease(Log([M EXCEPT !.ghost = told(@, btn, 0)],
                         <<"keyRelease", btn>>),
                     M.keypad.m_listner, btn)

\* ButtonSet::forEach with each of the three lambdas of loopImpl: the set
\* bits from idx on, in ordinal order
RECURSIVE forEachJustPressed(_, _, _)
forEachJustPressed(M, flags, idx) ==
    IF idx >= 8 THEN M
    ELSE forEachJustPressed(
             IF BitAnd(flags, mask(idx)) # 0 THEN justPressedStep(M, idx) ELSE M,
             flags, idx + 1)

RECURSIVE forEachLongTimePressed(_, _, _)
forEachLongTimePressed(M, flags, idx) ==
    IF idx >= 8 THEN M
    ELSE forEachLongTimePressed(
             IF BitAnd(flags, mask(idx)) # 0 THEN longTimePressedStep(M, idx) ELSE M,
             flags, idx + 1)

RECURSIVE forEachJustReleased(_, _, _)
forEachJustReleased(M, flags, idx) ==
    IF idx >= 8 THEN M
    ELSE forEachJustReleased(
             IF BitAnd(flags, mask(idx)) # 0 THEN justReleasedStep(M, idx) ELSE M,
             flags, idx + 1)

longTimePressed(oldState, newState) ==
    difference(notIn(newState, oldState), newState)

\* variant: the releases are dispatched before the presses
dispatch_releaseFirst(M, oldState, newState) ==
    IF M.keypad.m_listner = NULL THEN M
    ELSE forEachLongTimePressed(
             forEachJustPressed(
                 forEachJustReleased(M, notIn(oldState, newState), 0),
                 notIn(newState, oldState), 0),
             longTimePressed(oldState, newState), 0)

\* the three dispatch loops of loopImpl, run when a listener is installed
dispatch(M, oldState, newState) ==
    IF M.keypad.m_listner = NULL THEN M
    ELSE forEachJustReleased(
             forEachLongTimePressed(
                 forEachJustPressed(M, notIn(newState, oldState), 0),
                 longTimePressed(oldState, newState), 0),
             notIn(oldState, newState), 0)

loopImpl(M, oldState, newState) ==
    dispatch(updateIdle(M, oldState, newState), oldState, newState)

Keypad_onLoop(M) ==
    [loopImpl(Log(M, <<"sample", M.in.sample>>),
              M.keypad.m_prevState, M.in.sample)
        EXCEPT !.keypad.m_prevState = M.in.sample]

\* variant: the keypad keeps what it held before the halt
Keypad_onWakeUp_keep(M) == M

Keypad_onWakeUp(M) ==
    [M EXCEPT !.keypad.m_idleStart = M.now,
              !.keypad.m_buttonPressTime = [i \in 0..4 |-> M.now],
              !.keypad.m_prevState = 0]

----------------------------------------------------------------------------
(* Shell: the prepare-sleep and wake sequences, the deferred events        *)

\* variant: the display is blanked before the keypad and the application
\* are told
Shell_onPrepareSleep_screenFirst(M) ==
    LET cur == M.shell.m_currentApplication
        M1 == Screen_onPrepareSleep(Log(Log(M, <<"Shell::onPrepareSleep">>),
                                        <<"Screen::onPrepareSleep">>))
        M2 == Log(M1, <<"Keypad::onPrepareSleep">>)
    IN  IF cur # NULL THEN prepareSleep(M2, cur) ELSE M2

Shell_onPrepareSleep(M) ==
    LET cur == M.shell.m_currentApplication
        M1 == Log(Log(M, <<"Shell::onPrepareSleep">>), <<"Keypad::onPrepareSleep">>)
        M2 == IF cur # NULL THEN prepareSleep(M1, cur) ELSE M1
    IN  Screen_onPrepareSleep(Log(M2, <<"Screen::onPrepareSleep">>))

Shell_onWakeUp(M) ==
    LET cur == M.shell.m_currentApplication
        M1 == Screen_onWakeUp(Log(Log(M, <<"Shell::onWakeUp">>), <<"Screen::onWakeUp">>))
        M2 == Keypad_onWakeUp(Log(M1, <<"Keypad::onWakeUp">>))
    IN  IF cur # NULL THEN wakeUp(M2, cur) ELSE M2

\* variant: the application deactivated stays the keypad listener
NotifyPrevAppCallable_execute_heard(M) ==
    deactivate([M EXCEPT !.shell.m_currentApplication = NULL],
               M.shell.notifyEvent_app)


NotifyPrevAppCallable_execute(M) ==
    deactivate([M EXCEPT !.shell.m_currentApplication = NULL,
                         !.keypad.m_listner = NULL],
               M.shell.notifyEvent_app)

\* variant: the application started is not installed as keypad listener
StartAppCallable_execute_unheard(M) ==
    LET a == M.shell.startEvent_app
    IN  activate([M EXCEPT !.shell.m_currentApplication = a], a)

StartAppCallable_execute(M) ==
    LET a == M.shell.startEvent_app
        M1 == activate([M EXCEPT !.shell.m_currentApplication = a,
                                 !.ghost.parked =
                                     IF M.shell.m_currentApplication = "snake"
                                     THEN parkedAt(M) ELSE @,
                                 !.ghost.hop = <<M.ghost.last, a>>,
                                 !.ghost.last = a], a)
    IN  [M1 EXCEPT !.keypad.m_listner = a]

\* variant: the interrupt handler schedules the wake notification itself
wakeUpInterrupt_schedules(M) == scheduleSysEvent(M, "NotifiWakeUpCallable")

\* void wakeUpInterrupt() { /* noop */ }
wakeUpInterrupt(M) == M

\* variant: no wake event is scheduled
SleepCallable_resume_silent(M) == M

\* SleepCallable::execute after sleep_cpu() returned
SleepCallable_resume(M) == scheduleSysEvent(M, "NotifiWakeUpCallable")

\* the body of a tick whose popNextEvent() returned an event that does not block
executeEvent(M, event) ==
    CASE event = "SleepNotifierCallable" -> Shell_onPrepareSleep(M)
      [] event = "NotifyPrevAppCallable" -> NotifyPrevAppCallable_execute(M)
      [] event = "StartAppCallable"      -> StartAppCallable_execute(M)

\* the body of a tick whose popNextEvent() returned nullptr
\* if (m_currentApplication != nullptr) m_currentApplication->loop()
loopCurrent(M) ==
    IF M.shell.m_currentApplication # NULL
    THEN loop(M, M.shell.m_currentApplication) ELSE M

\* variant: the application's loop() runs before the keypad is sampled
Shell_onLoop_keypadLast(M) == Screen_onLoop(Keypad_onLoop(loopCurrent(M)))

Shell_onLoop(M) == Screen_onLoop(loopCurrent(Keypad_onLoop(M)))

----------------------------------------------------------------------------
(* Bounds of the exploration and the inputs of a tick                      *)

\* how many times a behaviour lets time pass once the intro is over
MaxWaits == 2
\* how many snake moves a behaviour steers
MaxMoves == 3
\* how many scheduleApplication calls a behaviour operates the buttons after
MaxSwitches == 3

\* Five people operate the device.  The gamer goes through the menus without
\* delay and steers the snake with Up, Left and Down, releasing one button
\* before pressing the next; the clock advances by whole snake intervals, or
\* the gamer dozes off right after pressing Down, still holding it.  The watcher lets the intro
\* play at one frame per step, touches nothing but Center and leaves the
\* device alone for longer than the idle timeout or holds a button for longer
\* than the long-press time.  The pianist presses chords on the intro.  The
\* sleeper skips the intro, leaves the main menu alone until the device
\* sleeps, and wakes it with Center when millis() reads ULONG_MAX.  The
\* masher goes through the menus without delay and presses chords in the
\* game.  A sixth, the replayer, takes over a game that has just started:
\* steers with Up and Left, dozes off holding Up, leaves the pause with
\* Center or with Left, and watches the game-over screen one frame per step;
\* the replayer's finger may go from Center to another button between two
\* samples of the game.
Players == {"gamer", "watcher", "pianist", "sleeper", "masher"}

\* the pianist's chords: Left+Center, then Up+Center+Down
Chords == {0, mask(Left) + mask(Center), mask(Up) + mask(Center) + mask(Down)}

DeltasFor(p, cur, fresh) ==
    CASE p = "gamer" /\ cur = "snake" ->
             IF Down \in fresh THEN {0, 320, MaxIdleTime + 1} ELSE {0, 320}
      [] p = "watcher" /\ cur = "welcome" -> {0, 1501}
      [] p = "watcher" /\ cur = "mainMenu" -> {0, MaxPressTime + 1, MaxIdleTime + 1}
      [] p = "watcher" /\ cur = "snake" -> {0, MaxIdleTime + 1}
      [] p = "pianist" /\ cur = "welcome" -> {0, MaxPressTime + 1}
      [] p = "sleeper" /\ cur = "mainMenu" -> {0, MaxIdleTime + 1}
      [] p = "replayer" /\ cur = "snake" ->
             IF Up \in fresh THEN {0, 320, MaxIdleTime + 1} ELSE {0, 320}
      [] p = "replayer" /\ cur = "gameOver" ->
             IF priv.gameOver_frame > 6 THEN {0} ELSE {401}
      [] OTHER -> {0}

Touches(p, cur, seen, d) ==
    IF p \in {"gamer", "replayer"} /\ cur = "snake"
    THEN IF d > MaxIdleTime THEN {seen}
         ELSE IF p = "replayer"
              THEN (IF seen \in {0, mask(Center)}
                    THEN {0, mask(Left), mask(Up), mask(Center)} ELSE {0, seen})
         ELSE IF seen = 0 THEN {0, mask(Left), mask(Up), mask(Center), mask(Down)}
         ELSE {0, seen}
    ELSE IF p = "pianist" THEN (IF cur = "welcome" THEN Chords ELSE {0})
    ELSE IF p = "masher" /\ cur = "snake" THEN Chords
    ELSE IF p = "replayer" /\ cur = "gameOver"
    THEN (IF priv.gameOver_frame > 6 THEN {0, mask(Center)} ELSE {0})
    ELSE IF p = "replayer" /\ cur = "pause"
    THEN (IF seen = 0 THEN {0, mask(Left), mask(Center)} ELSE {0, seen})
    ELSE {0, mask(Center)}

\* the gamer and the watcher are not followed through a tick that finds
\* both the clock and the buttons as the tick before left them
SamplesFor(p, cur, seen, d) ==
    IF d = 0 /\ p \in {"gamer", "watcher", "replayer"}
    THEN Touches(p, cur, seen, d) \ {seen}
    ELSE Touches(p, cur, seen, d)

\* how long the processor stays halted: no time, a little longer than the
\* idle time, or until millis() reads ULONG_MAX
HaltsFor(p, t) ==
    IF p = "sleeper" THEN {Long(0), Sub32(ULONG_MAX, t)}
    ELSE {Long(0), Long(MaxIdleTime + 1)}

\* what the busy-poll after the halt reads
PollSamples == {0, mask(Center)}

\* random(256) lands right of the fresh snake's head, on (9,7)
RandomDraws ==
    {[rnd |-> r, seedX |-> 6, jumpX |-> 3,
      seedY |-> [i \in 0..15 |-> 7], jumpY |-> [i \in 0..15 |-> 5],
      spill |-> NoSpill] :
        r \in {151}}

Input(sample, rd) ==
    [sample |-> sample, rnd |-> rd.rnd, seedX |-> rd.seedX, jumpX |-> rd.jumpX,
     seedY |-> rd.seedY, jumpY |-> rd.jumpY, spill |-> rd.spill]

NoInput ==
    Input(0, [rnd |-> 0, seedX |-> 0, jumpX |-> 3,
              seedY |-> [i \in 0..15 |-> 0], jumpY |-> [i \in 0..15 |-> 3],
              spill |-> NoSpill])

----------------------------------------------------------------------------
(* History variables                                                       *)

Capped(n, cap) == IF n > cap THEN cap + 1 ELSE n

\* an unsigned long duration as a number, cut at 2^16 - 1
Short(d) == IF d[1] > 0 THEN U16 - 1 ELSE d[2]

\* d milliseconds pass
timePasses(g, d, counted) ==
    [g EXCEPT !.waits = IF d > 0 /\ counted THEN @ + 1 ELSE @,
              !.sinceWake = IF @ < 0 THEN @ ELSE Capped(@ + d, MaxIdleTime),
              !.steady = Capped(@ + d, MaxIdleTime),
              !.upd.since = Capped(@ + d, MaxIdleTime),
              !.held = [b \in Buttons |->
                          IF g.held[b] < 0 THEN g.held[b]
                          ELSE Capped(g.held[b] + d, MaxPressTime)]]

\* the buttons are sampled, by the keypad or by the busy-poll: a sample that
\* differs from the one before it starts a new stretch (no button is down
\* before the first sample)
sampleTaken(g, sample) ==
    LET differs == sample # g.sampled
    IN  [g EXCEPT !.changed = differs,
                  !.steady = IF differs THEN 0 ELSE @,
                  !.idles = IF differs THEN 0 ELSE @,
                  !.idlesArmed = IF differs THEN 0 ELSE @,
                  !.sampled = sample]

\* the keypad reads the buttons: a button down now and up at the previous read
\* starts a hold, a button up now ends it
buttonsRead(g, sample) ==
    [sampleTaken(g, sample) EXCEPT
        !.longs = [b \in Buttons |->
                     IF BitAnd(sample, mask(b)) = 0 \/ BitAnd(g.seen, mask(b)) = 0
                     THEN 0 ELSE g.longs[b]],
        !.held = [b \in Buttons |->
                    IF BitAnd(sample, mask(b)) = 0 THEN -1
                    ELSE IF BitAnd(g.seen, mask(b)) = 0 THEN 0
                    ELSE g.held[b]],
        !.seen = sample]

\* the application-lane events pending in sh, oldest first, each with the
\* application its Callable is bound to
Pending(sh) ==
    [i \in 1..size(sh.m_shellEvents, EventCap) |->
        LET event == at(sh.m_shellEvents, EventCap, i - 1, NULL)
        IN  <<event, IF event = "StartAppCallable" THEN sh.startEvent_app
                     ELSE sh.notifyEvent_app>>]

\* what a sleep sequence found when it started
Snapshot ==
    [cur |-> shell.m_currentApplication, listner |-> keypad.m_listner,
     pending |-> Pending(shell)]

\* loop() was not called
NoRun ==
    [app |-> NULL, executed |-> FALSE, delay |-> 0, first |-> FALSE,
     next |-> FALSE, elapsed |-> 0]

\* a tick starts
tickStarts(g, kind) ==
    [g EXCEPT !.log = <<>>,
              !.ran = NoRun,
              !.took = [lane |-> "none", event |-> NULL, before |-> g.lanes],
              !.changed = FALSE,
              !.spins = 0,
              !.irq = 0,
              !.blind = FALSE,
              !.opposed = {},
              !.peak = 0,
              !.retold = {},
              !.hop = <<>>,
              !.turned = {},
              !.heard = [@ EXCEPT !.muted = {}, !.ungated = FALSE,
                                  !.late = FALSE],
              !.asleep = IF kind = "SleepNotifierCallable" THEN Snapshot ELSE @,
              !.found = [sys |-> size(shell.m_sysEvents, EventCap),
                         shell |-> size(shell.m_shellEvents, EventCap),
                         live |-> g.sysLive + g.shellLive],
              !.prevKind = g.kind,
              !.kind = kind,
              !.sinceIdle = IF @ # <<>> /\ Len(@) < 5 THEN Append(@, kind) ELSE @,
              !.plan = IF @.to # NULL /\ @.age < 2
                       THEN [@ EXCEPT !.age = @ + 1] ELSE NoPlan]

\* the wake sequence has completed
wakeCompleted(g) ==
    [g EXCEPT !.sinceIdle = <<>>,
              !.sinceWake = 0,
              !.idlesArmed = 0,
              !.longs = [b \in Buttons |-> 0],
              !.seen = 0,
              !.held = [b \in Buttons |-> -1]]

InitGhost ==
    [log |-> <<>>, kind |-> "setup", prevKind |-> "setup",
     active |-> {}, owed |-> {}, sysLive |-> 0, shellLive |-> 0,
     sinceIdle |-> <<>>, idleFound |-> [sys |-> 0, since |-> <<>>],
     found |-> [sys |-> 0, shell |-> 0, live |-> 0],
     lanes |-> [sys |-> <<>>, shell |-> <<>>], spilled |-> FALSE,
     upd |-> [app |-> NULL, fresh |-> TRUE, since |-> 0, called |-> FALSE],
     ran |-> NoRun,
     took |-> [lane |-> "none", event |-> NULL,
               before |-> [sys |-> <<>>, shell |-> <<>>]],
     asleep |-> [cur |-> NULL, listner |-> NULL, pending |-> <<>>],
     plan |-> NoPlan, moves |-> 0, waits |-> 0, switches |-> 0,
     polled |-> -1, sinceWake |-> -1, seen |-> 0,
     sampled |-> 0, changed |-> FALSE, steady |-> 0, idles |-> 0, idlesArmed |-> 0,
     held |-> [b \in Buttons |-> -1], longs |-> [b \in Buttons |-> 0],
     heard |-> [wired |-> {}, muted |-> {}, ungated |-> FALSE, late |-> FALSE],
     spins |-> 0, irq |-> 0, inked |-> FALSE, blind |-> FALSE,
     opposed |-> {}, segments |-> 0, peak |-> 0, astray |-> {},
     told |-> [b \in Buttons |-> 0], retold |-> {},
     hop |-> <<>>, last |-> NULL, went |-> 0 - 1, turned |-> {},
     parked |-> [snake |-> <<>>, direction |-> 0, apple |-> 0]]

----------------------------------------------------------------------------
(* The state after setup()                                                 *)

\* statics are zero-initialised; Shell::onSetup has run at time t.
\* priv.part_000 tells the build: FALSE for src/snake_game.ino, TRUE for the
\* variant of src/unnamed/part_000, whose m_doNotReset is the negation of
\* m_resetSnake, is set by the pause on Center and is cleared nowhere, whose
\* main menu leaves on the press of Center, and whose wakeup() keeps
\* m_lastLoopTime.
Constructed(t) ==
    [now |-> t,
     in |-> NoInput,
     keypad |-> [m_listner |-> NULL, m_idleListner |-> "shell",
                 m_prevState |-> 0, m_idleStart |-> t,
                 m_buttonPressTime |-> [i \in 0..4 |-> Long(0)]],
     screen |-> [m_modified |-> FALSE, panel |-> "blank", shown |-> "none"],
     shell |-> [m_currentApplication |-> NULL,
                m_sysEvents |-> EmptyQueue, m_shellEvents |-> EmptyQueue,
                notifyEvent_app |-> NULL, startEvent_app |-> NULL],
     base |-> [a \in Apps |->
                 [m_flags |-> 0, m_loopDelay |-> 0, m_lastLoopTime |-> Long(0)]],
     priv |-> [welcome_frame |-> 0, mainMenu_frame |-> 0, gameOver_frame |-> 0,
               gameOver_snake |-> NULL, pause_frame |-> 0,
               m_snake |-> EmptyQueue, m_direction |-> 0, m_apple |-> 0,
               m_acceptEventsUntillLoop |-> TRUE, m_resetSnake |-> TRUE,
               part_000 |-> FALSE],
     ghost |-> InitGhost]

\* ApplicationLauncher::setup
Launched(t) == scheduleApplication(Constructed(t), "welcome")

Machine(t, input, g) ==
    [now |-> t, in |-> input, keypad |-> keypad, screen |-> screen,
     shell |-> shell, base |-> base, priv |-> priv, ghost |-> g]

\* the machine state a handler computed becomes the next state
Commit(computed, p) ==
    \E M \in {computed} :
        /\ now' = M.now
        /\ pc' = p
        /\ keypad' = M.keypad
        /\ screen' = M.screen
        /\ shell' = M.shell
        /\ base' = M.base
        /\ priv' = M.priv
        /\ ghost' = M.ghost
        /\ player' = player
        /\ bench' = bench

\* the queue on the bench: its capacity, the queue, the elements pushed and
\* not popped (oldest first, while at most Cap - 1 were held), whether more
\* were ever held, the last operation, the number of operations so far and
\* the element that was the oldest before the last push
Bench(cap, start) ==
    [cap |-> cap, q |-> [EmptyQueue EXCEPT !.m_front = start, !.m_back = start],
     list |-> <<>>, spilled |-> FALSE, last |-> "none", ops |-> 0, oldest |-> 0]

InitAt(t) ==
    \E M \in {Launched(t)} :
        /\ now = M.now
        /\ pc = "run"
        /\ keypad = M.keypad
        /\ screen = M.screen
        /\ shell = M.shell
        /\ base = M.base
        /\ priv = M.priv
        /\ ghost = M.ghost
        /\ player \in Players

Init == InitAt(Long(0)) /\ bench = Bench(EventCap, 0)

----------------------------------------------------------------------------
(* The steps: one tick of loop(), or one blocking step inside a tick       *)

\* the intro advances one frame per wait, and so does the game-over screen
\* that the replayer watches, so these waits need no budget
Counted ==
    /\ shell.m_currentApplication # "welcome"
    /\ ~(player = "replayer" /\ shell.m_currentApplication = "gameOver")

\* the player goes on operating the device
Budget(d) ==
    /\ ghost.moves <= MaxMoves
    /\ ghost.switches <= MaxSwitches
    /\ d > 0 /\ Counted => ghost.waits < MaxWaits

\* Shell::onLoop when popNextEvent() returns an event
EventTick(rd) ==
    /\ pc = "run"
    /\ nextEvent(shell) # NULL
    /\ LET event == nextEvent(shell)
           M0 == popNextEvent(Machine(now, Input(0, rd), tickStarts(ghost, event)))
           M1 == Log(M0, <<"execute", event>>)
       IN  CASE event = "SleepCallable" -> Commit(Log(M1, <<"sleep_cpu">>), "halted")
             [] event = "NotifiWakeUpCallable" -> Commit(M1, "polling")
             [] OTHER -> Commit(Screen_onLoop(executeEvent(M1, event)), "run")

\* Shell::onLoop when popNextEvent() returns nullptr
LoopTick(d, sample, rd) ==
    /\ pc = "run"
    /\ Budget(d)
    /\ nextEvent(shell) = NULL
    /\ LET g == buttonsRead(tickStarts(timePasses(ghost, d, Counted), "loop"), sample)
       IN  Commit(Shell_onLoop(Machine(Add32(now, d), Input(sample, rd), g)),
                  "run")

\* the wake interrupt ends sleep_cpu(): the rest of SleepCallable::execute
\* and of the tick
Interrupt(d) ==
    /\ pc = "halted"
    /\ LET g == [timePasses(ghost, Short(d), FALSE) EXCEPT !.polled = -1]
           M0 == wakeUpInterrupt(Log(Machine(Sum32(now, d), NoInput, g),
                                     <<"wakeUpInterrupt">>))
       IN  Commit(Screen_onLoop(SleepCallable_resume(M0)), "run")

\* the interrupt pin falls while the processor is not halted: the handler
\* runs between two steps of the main context (followed for the sleeper)
StrayInterrupt ==
    /\ pc \in {"run", "polling"}
    /\ player = "sleeper"
    /\ ghost.irq = 0
    /\ Commit(wakeUpInterrupt(Machine(now, NoInput, [ghost EXCEPT !.irq = 1])), pc)

\* variant: the wake sequence runs after the first read, whatever it reads
Poll_once(sample) ==
    /\ pc = "polling"
    /\ LET g == sampleTaken([ghost EXCEPT !.polled = sample, !.irq = 0], sample)
           M0 == Log([Machine(now, NoInput, g) EXCEPT !.ghost.log = <<@[1]>>],
                     <<"read", sample>>)
           M1 == Shell_onWakeUp(M0)
       IN  Commit(Screen_onLoop([M1 EXCEPT !.ghost = wakeCompleted(@)]), "run")

\* one iteration of the busy-poll of NotifiWakeUpCallable::execute; when the
\* buttons read released, the wake sequence and the rest of the tick (the
\* log keeps the last read only)
Poll(sample) ==
    /\ pc = "polling"
    /\ LET g == sampleTaken([ghost EXCEPT !.polled = sample, !.irq = 0], sample)
           M0 == Log([Machine(now, NoInput, g) EXCEPT !.ghost.log = <<@[1]>>],
                     <<"read", sample>>)
           M1 == Shell_onWakeUp(M0)
           M2 == [M0 EXCEPT !.ghost.spins = IF @ = 1 THEN 2 ELSE 1]
       IN  IF empty(sample)
           THEN Commit(Screen_onLoop([M1 EXCEPT !.ghost = wakeCompleted(@)]), "run")
           ELSE Commit(M2, "polling")

Next ==
    \/ \E rd \in RandomDraws : EventTick(rd)
    \/ \E d \in DeltasFor(player, shell.m_currentApplication,
                           {b \in Buttons : ghost.held[b] = 0}) :
           \E sample \in SamplesFor(player, shell.m_currentApplication, ghost.seen, d),
              rd \in RandomDraws :
               LoopTick(d, sample, rd)
    \/ \E d \in HaltsFor(player, now) : Interrupt(d)
    \/ \E sample \in PollSamples : Poll(sample)
    \/ StrayInterrupt

Spec == Init /\ [][Next]_vars

\* The device left alone on the main menu, with the processor running: the
\* busy-poll of the wake notification, once entered, goes on executing (the
\* other ticks are single steps, and nothing makes the interrupt arrive).
InitLive == Init /\ player = "sleeper"

SpecLive == InitLive /\ [][Next]_vars /\ WF_vars(pc = "polling" /\ Next)

----------------------------------------------------------------------------
(* The ring buffer on its own: any sequence of at most MaxOps operations   *)
(* on a CircularQueue<int, Cap>, from an empty queue whose indices stand   *)
(* at 0 or short of the wrap-around                                        *)

MaxOps == 7

\* the capacities in use (3 and 256) and the 4 of a small example
BenchCaps == {EventCap, 4, SnakeCap}

InitQueue ==
    /\ InitAt(Long(0))
    /\ player = "watcher"
    /\ bench \in {Bench(cap, start) : cap \in BenchCaps, start \in {0, SnakeCap - 2}}
    /\ bench.q.m_front < bench.cap

\* q.push_back(x), x a value not pushed before
QPush ==
    /\ bench.ops < MaxOps
    /\ LET x == 10 * (bench.ops + 1)
           full == Len(bench.list) >= bench.cap - 1
       IN  bench' = [bench EXCEPT
                        !.q = push_back(@, bench.cap, x, 0),
                        !.list = IF bench.spilled THEN @ ELSE Append(@, x),
                        !.spilled = @ \/ full,
                        !.oldest = IF bench.list # <<>> THEN Head(bench.list) ELSE 0,
                        !.last = IF bench.spilled
                                 THEN (IF bench.last = "spill" THEN "over" ELSE "lost")
                                 ELSE IF full THEN "spill" ELSE "push",
                        !.ops = @ + 1]
    /\ UNCHANGED <<now, pc, keypad, screen, shell, base, priv, ghost, player>>

\* if (q.size() != 0) q.pop_front()
QPop ==
    /\ bench.ops < MaxOps
    /\ size(bench.q, bench.cap) # 0
    /\ bench' = [bench EXCEPT
                    !.q = pop_front(@, bench.cap),
                    !.list = IF bench.spilled \/ @ = <<>> THEN @ ELSE Tail(@),
                    !.last = IF bench.spilled THEN "lost" ELSE "pop",
                    !.ops = @ + 1]
    /\ UNCHANGED <<now, pc, keypad, screen, shell, base, priv, ghost, player>>

\* q.clear()
QClear ==
    /\ bench.ops < MaxOps
    /\ bench' = [bench EXCEPT
                    !.q = cq_clear(@),
                    !.list = <<>>,
                    !.spilled = FALSE,
                    !.last = "clear",
                    !.ops = @ + 1]
    /\ UNCHANGED <<now, pc, keypad, screen, shell, base, priv, ghost, player>>

NextQueue == QPush \/ QPop \/ QClear

SpecQueue == InitQueue /\ [][NextQueue]_vars

----------------------------------------------------------------------------
(* Two ButtonSets on their own: bench holds the two sets and the result of *)
(* the operation applied last.                                             *)

\* every value ButtonSet::read() can return: any of the five buttons down
ButtonSets == 0 .. (mask(Left) + mask(Up) + mask(Center) + mask(Down) + mask(Right))

InitButtons ==
    /\ InitAt(Long(0))
    /\ player = "watcher"
    /\ bench \in {[a |-> a, b |-> b, last |-> "none", res |-> 0] :
                     a \in ButtonSets, b \in ButtonSets}

\* a.notIn(b)
ApplyNotIn ==
    /\ bench.last # "notIn"
    /\ bench' = [bench EXCEPT !.last = "notIn", !.res = notIn(bench.a, bench.b)]
    /\ UNCHANGED <<now, pc, keypad, screen, shell, base, priv, ghost, player>>

\* a.difference(b)
ApplyDifference ==
    /\ bench.last # "difference"
    /\ bench' = [bench EXCEPT !.last = "difference",
                              !.res = difference(bench.a, bench.b)]
    /\ UNCHANGED <<now, pc, keypad, screen, shell, base, priv, ghost, player>>

NextButtons == ApplyNotIn \/ ApplyDifference

SpecButtons == InitButtons /\ [][NextButtons]_vars

----------------------------------------------------------------------------
(* The end of a long game.  The player has steered the snake along the     *)
(* closed path that goes Right fifteen times and Down once, sixteen times  *)
(* over: it visits the 256 cells of the board, so the snake eats every     *)
(* apple it is given and never hits itself.  The game was paused and has   *)
(* just been resumed (StartAppCallable with m_resetSnake false).           *)

\* the cell the path visits k steps after the cell (0, 0)
Cell(k) ==
    LET r == (k % SnakeCap) \div 16
        i == k % 16
    IN  Point((i + 16 - r) % 16, r)

\* the ring buffer of a snake of n segments with its head on Cell(h) and
\* m_front = f; the slots outside the snake hold the cells left last
LongSnake(n, h, f) ==
    [m_data |-> [s \in 1..SnakeCap |->
                    Cell(h + SnakeCap - n + 1 + ((s - 1 + SnakeCap - f) % SnakeCap))],
     m_front |-> f,
     m_back |-> (f + n) % SnakeCap]

\* snake lengths, head positions (inside a row: the snake is going Right
\* and the path goes on Right), ring-buffer offsets, and how far ahead of
\* the head the apple lies
EndLengths == {SnakeCap - 3, SnakeCap - 2, SnakeCap - 1}
EndHeads == {5}
EndFronts == {0, 200}
EndApples == {1, 2}

Resumed(n, h, f, a) ==
    LET M0 == [Constructed(Long(0)) EXCEPT
                   !.priv.m_snake = LongSnake(n, h, f),
                   !.priv.m_direction = Right,
                   !.priv.m_apple = Cell(h + a),
                   !.priv.m_resetSnake = FALSE,
                   !.shell.startEvent_app = "snake",
                   !.ghost.segments = n]
    IN  Screen_onLoop(StartAppCallable_execute(M0))

InitEndgame ==
    \E n \in EndLengths, h \in EndHeads, f \in EndFronts, a \in EndApples :
        /\ n + a <= SnakeCap
        /\ \E M \in {Resumed(n, h, f, a)} :
               /\ now = M.now
               /\ pc = "run"
               /\ keypad = M.keypad
               /\ screen = M.screen
               /\ shell = M.shell
               /\ base = M.base
               /\ priv = M.priv
               /\ ghost = M.ghost
        /\ player = "gamer"
        /\ bench = Bench(EventCap, 0)

\* the player lets the snake run, turns it Down, or pauses the game
EndSamples == {0, mask(Down), mask(Center)}

NextEndgame ==
    \/ \E rd \in RandomDraws : EventTick(rd)
    \/ \E d \in {0, 320}, sample \in EndSamples, rd \in RandomDraws :
           LoopTick(d, sample, rd)

SpecEndgame == InitEndgame /\ [][NextEndgame]_vars

----------------------------------------------------------------------------
(* Rounds of the game: the replayer, from a game that the main menu has    *)
(* just started                                                            *)

\* the state after StartAppCallable::execute has activated the game for the
\* first time: the main menu was the application before, and its
\* scheduleApplication call is the first that the replayer's budget counts
Started ==
    LET M0 == [Constructed(Long(0)) EXCEPT
                   !.in = Input(0, CHOOSE rd \in RandomDraws : TRUE),
                   !.shell.startEvent_app = "snake",
                   !.ghost.last = "mainMenu",
                   !.ghost.switches = 1]
    IN  Screen_onLoop(StartAppCallable_execute(M0))

\* one deferred event is executed: a tick of Shell::onLoop whose
\* popNextEvent() returns an event
Executed(M) ==
    Screen_onLoop(executeEvent(popNextEvent(M), nextEvent(M.shell)))

\* the state after a game over: the snake had eaten the first apple and
\* turned Up, Left and Down into its tail; the game-over screen has shown
\* its seven frames
Crashed ==
    LET q0 == cq_clear(Started.priv.m_snake)
        q1 == push_back(q0, SnakeCap, Point(8, 7), 0)
        q2 == push_back(q1, SnakeCap, Point(9, 7), 0)
        q3 == push_back(q2, SnakeCap, Point(9, 6), 0)
        q4 == push_back(q3, SnakeCap, Point(8, 6), 0)
        M0 == [Started EXCEPT !.priv.m_snake = q4,
                              !.priv.m_direction = Down,
                              !.priv.m_apple = Point(3, 3),
                              !.ghost.segments = 4,
                              !.ghost.went = Left]
        M1 == Executed(Executed(Screen_onLoop(loop(M0, "snake"))))
    IN  [M1 EXCEPT !.priv.gameOver_frame = 7,
                   !.base["gameOver"].m_lastLoopTime = M1.now,
                   !.ghost.log = <<>>,
                   !.ghost.moves = 0,
                   !.ghost.turned = {}]

InitRounds ==
    /\ \E M \in {Started, Crashed} :
           /\ now = M.now
           /\ pc = "run"
           /\ keypad = M.keypad
           /\ screen = M.screen
           /\ shell = M.shell
           /\ base = M.base
           /\ priv = M.priv
           /\ ghost = M.ghost
    /\ player = "replayer"
    /\ bench = Bench(EventCap, 0)

NextRounds ==
    \/ \E rd \in RandomDraws : EventTick(rd)
    \/ \E d \in DeltasFor(player, shell.m_currentApplication,
                           {b \in Buttons : ghost.held[b] = 0}) :
           \E sample \in SamplesFor(player, shell.m_currentApplication, ghost.seen, d),
              rd \in RandomDraws :
               LoopTick(d, sample, rd)
    \/ \E d \in HaltsFor(player, now) : Interrupt(d)
    \/ \E sample \in PollSamples : Poll(sample)

SpecRounds == InitRounds /\ [][NextRounds]_vars


----------------------------------------------------------------------------
(* Rounds of the game in the variant of src/unnamed/part_000               *)

StartedPart000 == [Started EXCEPT !.priv.part_000 = TRUE]

\* the state after a game over of a game that had been paused and resumed
\* with Center: the snake had eaten the first apple and turned Up and Left,
\* the player paused, resumed and let the snake run Down into its tail; the
\* game-over screen has shown its seven frames
CrashedPart000 ==
    LET q0 == cq_clear(StartedPart000.priv.m_snake)
        q1 == push_back(q0, SnakeCap, Point(8, 7), 0)
        q2 == push_back(q1, SnakeCap, Point(9, 7), 0)
        q3 == push_back(q2, SnakeCap, Point(9, 6), 0)
        q4 == push_back(q3, SnakeCap, Point(8, 6), 0)
        M0 == [StartedPart000 EXCEPT !.priv.m_snake = q4,
                                     !.priv.m_direction = Down,
                                     !.priv.m_apple = Point(3, 3),
                                     !.ghost.segments = 4,
                                     !.ghost.went = Left]
        M1 == Executed(Executed(snake_onKeyPress(M0, Center)))
        M2 == Executed(Executed(pause_onKeyPress(M1, Center)))
        M3 == Executed(Executed(Screen_onLoop(loop(M2, "snake"))))
    IN  [M3 EXCEPT !.priv.gameOver_frame = 7,
                   !.base["gameOver"].m_lastLoopTime = M3.now,
                   !.ghost.log = <<>>,
                   !.ghost.moves = 0,
                   !.ghost.switches = 1,
                   !.ghost.turned = {}]

InitPart000 ==
    /\ \E M \in {StartedPart000, CrashedPart000} :
           /\ now = M.now
           /\ pc = "run"
           /\ keypad = M.keypad
           /\ screen = M.screen
           /\ shell = M.shell
           /\ base = M.base
           /\ priv = M.priv
           /\ ghost = M.ghost
    /\ player = "replayer"
    /\ bench = Bench(EventCap, 0)

SpecPart000 == InitPart000 /\ [][NextRounds]_vars


----------------------------------------------------------------------------
(* makeApple() on its own: one call, on a short snake, on a snake that      *)
(* leaves two cells free and on one that leaves a single cell free          *)

AppleLengths == {3, SnakeCap - 2, SnakeCap - 1}
AppleHeads == {5, 100}
AppleFronts == {0, 200}

\* prime[] of findFreePoint
Primes == <<3, 5, 7, 11, 13>>

\* random(256) gives the first, a middle or the last cell; the column scan
\* starts at column 0 or 6 and jumps by 3 or 13; the rows start at
\* s, s + 3, s + 6, ... and the row jumps go through prime[] from its j-th
\* entry on, column after column
AppleDraws ==
    {[rnd |-> r, seedX |-> sx, jumpX |-> jx,
      seedY |-> [i \in 0..15 |-> (s + 3 * i) % 16],
      jumpY |-> [i \in 0..15 |-> Primes[((j + i) % 5) + 1]],
      spill |-> k] :
        r \in {0, 151, 255}, sx \in {0, 6}, jx \in {3, 13},
        s \in {0, 7}, j \in {0, 4}, k \in {NoSpill, 0, 240}}

InitApple ==
    /\ \E n \in AppleLengths, h \in AppleHeads, f \in AppleFronts :
           \E M \in {[Constructed(Long(0)) EXCEPT
                          !.priv.m_snake = LongSnake(n, h, f),
                          !.priv.m_direction = Right,
                          !.ghost.segments = n]} :
               /\ now = M.now
               /\ keypad = M.keypad
               /\ screen = M.screen
               /\ shell = M.shell
               /\ base = M.base
               /\ priv = M.priv
               /\ ghost = M.ghost
    /\ pc = "run"
    /\ player = "gamer"
    /\ bench = Bench(EventCap, 0)

\* one call of makeApple(); the bench keeps the cell random(256) gave and
\* the cells the snake held when the board was filled
ApplyMakeApple ==
    /\ pc = "run"
    /\ \E rd \in AppleDraws :
           \E M \in {makeApple(Machine(now, Input(0, rd), ghost))} :
               /\ priv' = M.priv
               /\ bench' = [bench EXCEPT !.last = "makeApple",
                                          !.oldest = Point(rd.rnd \div 16, rd.rnd % 16),
                                          !.list = <<boardSet(memset_m_bits(
                                                        Machine(now, Input(0, rd), ghost)))>>]
    /\ pc' = "applied"
    /\ UNCHANGED <<now, keypad, screen, shell, base, ghost, player>>

NextApple == ApplyMakeApple

SpecApple == InitApple /\ [][NextApple]_vars


----------------------------------------------------------------------------
(* Properties                                                              *)

\* the running tick logged the call e
Has(e) == \E i \in DOMAIN ghost.log : ghost.log[i] = e

\* the running tick executed the deferred event e and no other
ExecutedOnly(e) ==
    /\ Cardinality(Logged("execute")) = 1
    /\ Has(<<"execute", e>>)

IsPrefix(s, t) == Len(s) <= Len(t) /\ \A i \in DOMAIN s : s[i] = t[i]

SysEvents == {"SleepNotifierCallable", "SleepCallable", "NotifiWakeUpCallable"}

SleepSequence ==
    <<"idle", "SleepNotifierCallable", "SleepCallable", "NotifiWakeUpCallable">>

\* C1: after scheduleApplication(B) is called with application A current and
\* nothing else in the lanes (no event pending at the call, no further call in
\* the same tick), the next tick executes the deactivate event only
\* (A deactivated, no current application, no keypad listener) and the tick
\* after it the activate event only (B activated, current and listener); with
\* no current application only the activate event is queued and the next tick
\* completes the switch.
C1_SwitchTicks ==
    LET p == ghost.plan
        started == /\ ghost.kind = "StartAppCallable"
                   /\ ExecutedOnly("StartAppCallable")
                   /\ Has(<<"activate", p.to>>)
                   /\ shell.m_currentApplication = p.to
                   /\ keypad.m_listner = p.to
                   /\ p.to \in ghost.active
    IN  /\ p.to # NULL /\ p.age = 0 =>
               size(shell.m_shellEvents, EventCap) = (IF p.from = NULL THEN 1 ELSE 2)
        /\ p.to # NULL /\ p.from # NULL /\ p.age = 1 =>
               /\ ghost.kind = "NotifyPrevAppCallable"
               /\ ExecutedOnly("NotifyPrevAppCallable")
               /\ Has(<<"deactivate", p.from>>)
               /\ Logged("activate") = {}
               /\ shell.m_currentApplication = NULL
               /\ keypad.m_listner = NULL
               /\ p.from \notin ghost.active
        /\ p.to # NULL /\ p.from # NULL /\ p.age = 2 => started
        /\ p.to # NULL /\ p.from = NULL /\ p.age = 1 => started

\* an isolated switch from one application to another has completed
C1_Switched ==
    /\ ghost.plan.from # NULL
    /\ ghost.plan.age = 2
    /\ shell.m_currentApplication = ghost.plan.to

\* C2: at most one application is active (activated and not yet deactivated).
C2_OneActive == Cardinality(ghost.active) <= 1

\* C3: every scheduled application gets activated: once the lanes have
\* drained, no application is still waiting for the activation it was
\* scheduled for.
C3_ScheduledActivated ==
    (pc = "run" /\ nextEvent(shell) = NULL) => ghost.owed = {}

\* C4: the application lane holds at most 2 pending events.
C4_ShellLaneBound == ghost.shellLive <= 2

\* C5: the system lane holds at most 2 pending events, and every idle
\* notification found the system lane empty and the sleep sequence of the
\* previous notification completed.
C5_SysLaneBound ==
    /\ ghost.sysLive <= 2
    /\ ghost.idleFound = [sys |-> 0, since |-> <<>>]

\* the idle notification has queued its two events
C5_IdleQueued == Logged("onIdle") # {} /\ ghost.sysLive = 2

\* C6: the ticks after the idle notification execute the prepare-sleep, the
\* halt and the wake event, in that order, and none of them samples the
\* keypad, notifies a key or runs an application loop().
C6_SleepSequence ==
    /\ IsPrefix(ghost.sinceIdle, SleepSequence)
    /\ Len(ghost.sinceIdle) >= 2 =>
           \A k \in {"sample", "keyPress", "longKeyPress", "keyRelease",
                     "onKeyPress", "onLongKeyPress", "onKeyRelease",
                     "loop", "onLoop"} : Logged(k) = {}

\* the wake event is being executed, three ticks after the idle notification
C6_WakeReached == ghost.sinceIdle = SleepSequence

\* C7: a tick that finds a system event pending executes a system event, and
\* no application is deactivated or activated between the idle notification
\* and the end of the wake sequence.
C7_SystemFirst ==
    /\ ghost.found.sys > 0 => ghost.kind \in SysEvents
    /\ ghost.sinceIdle # <<>> => Logged("activate") = {} /\ Logged("deactivate") = {}

\* a tick found events pending in both lanes
C7_BothPending ==
    /\ ghost.found.sys > 0
    /\ ghost.found.shell > 0
    /\ ghost.kind \in SysEvents

\* C8: the processor halts only inside the enter-low-power event, the
\* prepare-sleep event was executed by the tick before, and the panel shows
\* a blank frame.
C8_HaltPrepared ==
    (pc = "halted" \/ Logged("sleep_cpu") # {}) =>
        /\ ghost.kind = "SleepCallable"
        /\ ghost.prevKind = "SleepNotifierCallable"
        /\ screen.shown = "blank"

\* the processor is halted
C8_Halted == pc = "halted" /\ Logged("sleep_cpu") # {}

\* C9: the wake sequence runs display, keypad, application, in the wake event
\* only, and right after a read of the buttons that found all five released.
C9_WakeAfterRelease ==
    \A i \in Logged("Shell::onWakeUp") :
        /\ ghost.kind = "NotifiWakeUpCallable"
        /\ Logged("wakeUpInterrupt") = {} /\ Logged("sleep_cpu") = {}
        /\ ghost.polled = 0
        /\ i > 1 /\ ghost.log[i - 1] = <<"read", 0>>
        /\ \A j \in Logged("Screen::onWakeUp") \cup Logged("Keypad::onWakeUp")
                    \cup Logged("wakeUp") : j > i
        /\ \A j \in Logged("Screen::onWakeUp"), k \in Logged("Keypad::onWakeUp") : j < k
        /\ \A j \in Logged("Keypad::onWakeUp"), k \in Logged("wakeUp") : j < k

\* the wake sequence has run
C9_Woken ==
    /\ Logged("Shell::onWakeUp") # {}
    /\ Logged("Keypad::onWakeUp") # {}
    /\ Logged("wakeUp") # {}

\* C10: after a wake the idle listener is notified only when more than
\* MaxIdleTime has passed since the wake, and a long key press is notified
\* only for a button the keypad saw go down after the wake and held for more
\* than MaxPressTime.
C10_TimersRestart ==
    ghost.sinceWake >= 0 =>
        /\ Logged("onIdle") # {} => ghost.sinceWake > MaxIdleTime
        /\ \A i \in Logged("longKeyPress") \cup Logged("onLongKeyPress") :
               ghost.held[ghost.log[i][Len(ghost.log[i])]] > MaxPressTime

\* after a wake, a button was held until the idle notification
C10_HeldUntilIdle ==
    /\ ghost.sinceWake > MaxIdleTime
    /\ Logged("onIdle") # {}
    /\ Logged("onLongKeyPress") # {}

\* C11: a sleep/wake round trip keeps the current application, the keypad
\* listener and the application-lane events that were pending when the sleep
\* sequence started, in their order and with their target applications.
C11_RoundTrip ==
    (Len(ghost.sinceIdle) >= 2 \/ Logged("Shell::onWakeUp") # {}) =>
        /\ shell.m_currentApplication = ghost.asleep.cur
        /\ keypad.m_listner = ghost.asleep.listner
        /\ IsPrefix(ghost.asleep.pending, Pending(shell))

C13_ChangeRearms ==
    /\ ghost.changed => ~Has(<<"onIdle">>)
    /\ Has(<<"onIdle">>) => ghost.steady > MaxIdleTime
    /\ (ghost.kind = "loop" /\ ~ghost.changed /\ ghost.steady > MaxIdleTime) =>
           ghost.idles >= 1

\* C14: during one continuous hold of a button the keypad sends the
\* long-key-press notification for that button at most once.
C14_LongPressOnce == \A b \in Buttons : ghost.longs[b] <= 1

\* the place of a logged call in the order of a keypad tick
Rank(e) ==
    CASE e[1] = "onIdle" -> 0
      [] e[1] = "keyPress" -> 1
      [] e[1] = "longKeyPress" -> 2
      [] e[1] = "keyRelease" -> 3
      [] OTHER -> -1

\* C15: within one keypad tick the idle notification comes first, then the
\* key-press notifications in ordinal order of the buttons, then the
\* long-key-press notifications, then the key-release notifications.
C15_DispatchOrder ==
    \A i, j \in DOMAIN ghost.log :
        (i < j /\ Rank(ghost.log[i]) >= 0 /\ Rank(ghost.log[j]) >= 0) =>
            /\ Rank(ghost.log[i]) <= Rank(ghost.log[j])
            /\ (Rank(ghost.log[i]) = 1 /\ Rank(ghost.log[j]) = 1) =>
                   ghost.log[i][2] < ghost.log[j][2]

\* one tick pressed Up and Down, found Center held long and Left released
C15_AllKinds ==
    /\ Has(<<"keyPress", Up>>) /\ Has(<<"keyPress", Down>>)
    /\ Has(<<"longKeyPress", Center>>)
    /\ Has(<<"keyRelease", Left>>)

\* one tick notified idle and then a long key press
C15_IdleThenLong == Has(<<"onIdle">>) /\ Logged("longKeyPress") # {}

\* C16: a completed tick that found a deferred event pending (a lane of the
\* queue reporting a size other than 0) executed exactly one event, sampled
\* no keypad and called no loop(); any other tick executed no event, sampled
\* the keypad first, called loop() once if an application is current, and
\* wrote the display after that; either way no modification of the display
\* is left unwritten.
C16_TickShape ==
    (pc = "run" /\ ghost.kind # "setup") =>
        /\ ~screen.m_modified
        /\ IF ghost.found.sys + ghost.found.shell > 0
           THEN /\ Cardinality(Logged("execute")) = 1
                /\ Logged("sample") = {}
                /\ Logged("loop") = {}
           ELSE /\ Logged("execute") = {}
                /\ Logged("sample") = {1}
                /\ Cardinality(Logged("loop")) =
                       IF shell.m_currentApplication # NULL THEN 1 ELSE 0
                /\ \A i \in Logged("loop") : \A j \in Logged("write") : i < j

\* the wake event, while executing, scheduled the pause screen, which did not
\* run in that tick
C16_ScheduledWhileExecuting ==
    /\ pc = "run"
    /\ Has(<<"execute", "NotifiWakeUpCallable">>)
    /\ Has(<<"scheduleApplication", "pause">>)
    /\ Logged("activate") = {}
    /\ size(shell.m_shellEvents, EventCap) > 0

\* what a lane holds, oldest first
Held(q) == [i \in 1..size(q, EventCap) |-> at(q, EventCap, i - 1, NULL)]

C18_QueueLaws ==
    /\ ~bench.spilled =>
           /\ size(bench.q, bench.cap) = Len(bench.list)
           /\ \A i \in DOMAIN bench.list :
                  at(bench.q, bench.cap, i - 1, 0) = bench.list[i]
           /\ bench.list # <<>> =>
                  /\ front(bench.q, 0) = Head(bench.list)
                  /\ back(bench.q, bench.cap, 0) = bench.list[Len(bench.list)]
    /\ bench.last = "clear" => size(bench.q, bench.cap) = 0

\* the queue holds Cap - 1 elements across the wrap-around of its indices
C18_Wrapped ==
    /\ ~bench.spilled
    /\ Len(bench.list) = bench.cap - 1
    /\ bench.q.m_back < bench.q.m_front
    /\ bench.last = "push"

\* C19 as stated: the push_back on a queue holding Cap - 1 elements
\* overwrites the oldest of them.
C19_OverwritesOldest ==
    bench.last = "spill" => front(bench.q, 0) # bench.oldest

\* C19: the push_back on a queue holding Cap - 1 elements stores the element
\* in the one free slot, every element stays in its slot, and size() reads
\* 0; it is the push_back after that one which overwrites the oldest element.
C19_SpillThenOverwrite ==
    /\ bench.last = "spill" =>
           /\ size(bench.q, bench.cap) = 0
           /\ \A i \in DOMAIN bench.list :
                  at(bench.q, bench.cap, i - 1, 0) = bench.list[i]
    /\ bench.last = "over" =>
           /\ size(bench.q, bench.cap) = 1
           /\ front(bench.q, 0) = 10 * bench.ops
           /\ front(bench.q, 0) # bench.list[1]

\* a queue of capacity 4 took a fourth and a fifth element
C19_Overwritten == bench.last = "over" /\ bench.cap = 4

\* C20: a loop() call that executes the update, other than the first update
\* after activate() or wakeUp(), finds the interval 0 or more than the
\* interval elapsed since the last executed update, timed or early.
C20_LoopInterval ==
    (ghost.ran.executed /\ ~ghost.ran.first) =>
        \/ ghost.ran.delay = 0
        \/ ghost.ran.elapsed > ghost.ran.delay

\* C21 as stated: the first loop() call after activate() or wakeUp() executes
\* the update.
C21_FirstLoopRuns == ghost.ran.next => ghost.ran.executed

\* C21: the first loop() call after activate() or wakeUp() executes the
\* update, unless earlyLoop() has executed it since the activation or wake.
C21_FirstLoopRunsUnlessEarly ==
    (ghost.ran.next /\ ghost.ran.first) => ghost.ran.executed

\* the first loop() call after a wake that took no time executed the update
\* of an application with a non-zero interval
C21_RanAfterWake ==
    /\ ghost.ran.next /\ ghost.ran.first /\ ghost.ran.executed
    /\ ghost.ran.delay > 0
    /\ ghost.sinceWake = 0
    /\ ghost.ran.elapsed = 0

C23_TickEnds == [](pc = "polling" => <>(pc = "run"))

\* C23: only the tick of SleepCallable and the tick of NotifiWakeUpCallable
\* are left unfinished by a step, and a step of the busy-poll of
\* NotifiWakeUpCallable finishes its tick exactly when it reads no button
\* pressed.
C23_TickEndsOnRelease ==
    [][/\ (pc = "run" /\ pc' # "run")
           => ghost'.kind \in {"SleepCallable", "NotifiWakeUpCallable"}
       /\ pc = "polling" => (pc' = "run" <=> ghost'.polled = 0)
       /\ pc = "polling" => pc' \in {"run", "polling"}]_vars

\* the wake notification read a pressed button, went on polling, and ended
\* its tick with the read that found the buttons released
C23_PolledUntilReleased ==
    /\ pc = "run"
    /\ ghost.kind = "NotifiWakeUpCallable"
    /\ ghost.spins > 0
    /\ ghost.polled = 0
    /\ Has(<<"read", 0>>)

\* C24: a run of the wake interrupt handler, halted or not, in a tick or
\* between two ticks, leaves the clock, the keypad, the display, the shell
\* (current application and both event lanes) and the applications as they
\* were.
C24_HandlerChangesNothing ==
    [][/\ (ghost.irq = 0 /\ ghost'.irq = 1)
           => UNCHANGED <<now, pc, keypad, screen, shell, base, priv>>
       /\ pc = "halted"
           => \E M \in {Machine(now, NoInput, ghost)} :
                  /\ wakeUpInterrupt(M).shell = shell
                  /\ wakeUpInterrupt(M).keypad = keypad]_vars

\* the handler ran inside the tick of the wake notification, between two
\* reads of the busy-poll
C24_InterruptedPoll == pc = "polling" /\ ghost.irq = 1 /\ ghost.spins > 0

\* C25: the display is written at most once in a tick, and only when
\* something was drawn or cleared since the previous write.
C25_OneWritePerTick ==
    /\ Cardinality(Logged("write")) <= 1
    /\ ~ghost.blind

\* C26: opposite() swaps Left with Right and Up with Down, applying it twice
\* gives the button back, and it is never evaluated on Center.
C26_OppositeInvolution ==
    /\ \A b \in Buttons \ {Center} : opposite(opposite(b)) = b
    /\ opposite(Left) = Right /\ opposite(Right) = Left
    /\ opposite(Up) = Down /\ opposite(Down) = Up
    /\ Center \notin ghost.opposed

\* Up, Center and Down went down in one tick of the game: opposite() was
\* evaluated on Up and the press of Center reached its handler
C26_ChordInGame ==
    /\ Has(<<"sample", mask(Up) + mask(Center) + mask(Down)>>)
    /\ Has(<<"onKeyPress", "snake", Center>>)
    /\ Up \in ghost.opposed

\* the buttons of a ButtonSet value
Pressed(flags) == {b \in 0..7 : (flags \div (2 ^ b)) % 2 = 1}

\* C27: the five masks are 1, 2, 4, 8 and 16 for Left, Up, Center, Down and
\* Right; a.notIn(b) holds the buttons of a that are not in b, and
\* a.difference(b) the buttons that are in exactly one of a and b.
C27_ButtonSetAlgebra ==
    /\ mask(Left) = 1 /\ mask(Up) = 2 /\ mask(Center) = 4
    /\ mask(Down) = 8 /\ mask(Right) = 16
    /\ bench.res \in 0..(U8 - 1)
    /\ bench.last = "notIn"
           => Pressed(bench.res) = Pressed(bench.a) \ Pressed(bench.b)
    /\ bench.last = "difference"
           => Pressed(bench.res) = (Pressed(bench.a) \ Pressed(bench.b))
                                    \cup (Pressed(bench.b) \ Pressed(bench.a))

\* notIn applied to two sets that share Center, each with buttons the other
\* lacks: {Up, Center, Right}.notIn({Center, Down}) = {Up, Right}
C27_NotInOverlap ==
    /\ bench.last = "notIn"
    /\ bench.a = mask(Up) + mask(Center) + mask(Right)
    /\ bench.b = mask(Center) + mask(Down)
    /\ bench.res = mask(Up) + mask(Right)

\* the hooks of the prepare-sleep and wake sequences called in this tick
Hooks ==
    {"Keypad::onPrepareSleep", "prepareSleep", "Screen::onPrepareSleep",
     "Screen::onWakeUp", "Keypad::onWakeUp", "wakeUp"}

Called == SelectSeq(ghost.log, LAMBDA e : e[1] \in Hooks)

\* C28: the prepare-sleep sequence calls the keypad hook, prepareSleep() of
\* the current application if there is one, then the display hook, which
\* blanks the panel and writes it; the wake sequence calls the display hook,
\* the keypad hook, then wakeUp() of the current application if there is one;
\* no hook is called outside the two sequences.
C28_HookOrder ==
    LET cur == shell.m_currentApplication
        hook(kind) == IF cur # NULL THEN << <<kind, cur>> >> ELSE <<>>
    IN  /\ Has(<<"Shell::onPrepareSleep">>) =>
               /\ Called = << <<"Keypad::onPrepareSleep">> >>
                               \o hook("prepareSleep")
                               \o << <<"Screen::onPrepareSleep">> >>
               /\ \A i \in Logged("Screen::onPrepareSleep") :
                      i < Len(ghost.log) /\ ghost.log[i + 1] = <<"write">>
               /\ screen.shown = "blank"
        /\ Has(<<"Shell::onWakeUp">>) =>
               Called = << <<"Screen::onWakeUp">>, <<"Keypad::onWakeUp">> >>
                           \o hook("wakeUp")
        /\ ~Has(<<"Shell::onPrepareSleep">>) /\ ~Has(<<"Shell::onWakeUp">>) =>
               Called = <<>>

\* the game was put to sleep and has been woken: both sequences have run
\* with the snake game current
C28_GameWoken ==
    /\ Has(<<"Shell::onWakeUp">>)
    /\ Has(<<"wakeUp", "snake">>)
    /\ ghost.asleep.cur = "snake"
    /\ ghost.kind = "NotifiWakeUpCallable"

\* C29: a tick of the keypad that notifies idle sends no key-press,
\* long-key-press or key-release notification to the listener.
C29_IdleTickQuiet ==
    Has(<<"onIdle">>) =>
        Logged("keyPress") \cup Logged("longKeyPress") \cup Logged("keyRelease") = {}

\* C30: the ring buffer of the snake never holds more than 255 segments, not
\* even between the push of the new head and the pop of the tail, and size()
\* is the number of segments of the snake.
C30_SizeIsLength ==
    /\ ghost.segments <= SnakeCap - 1
    /\ ghost.peak <= SnakeCap - 1
    /\ size(priv.m_snake, SnakeCap) = ghost.segments

\* C31: a tick that samples the keypad has a current application, and that
\* application is the keypad listener.
C31_SampledWithApplication ==
    Logged("sample") # {} =>
        /\ shell.m_currentApplication # NULL
        /\ keypad.m_listner = shell.m_currentApplication

\* the keypad is sampled after an application lane was pushed beyond its
\* capacity and lost the deactivate event
C31_SampledAfterSpill ==
    /\ Logged("sample") # {}
    /\ ghost.spilled
    /\ Cardinality(ghost.active) > 1

\* C32: the keypad listener is the current application (both none, or the
\* same one), and loop(), the key notifications, prepareSleep() and wakeUp()
\* reach only the application that is current when called and that was
\* activated and not deactivated since.
C32_ListenerIsCurrent ==
    /\ keypad.m_listner = shell.m_currentApplication
    /\ ghost.astray = {}

\* an application is woken and is the current one, while an application
\* replaced earlier was never deactivated
C32_WokenBesideStale ==
    /\ Has(<<"wakeUp", shell.m_currentApplication>>)
    /\ Cardinality(ghost.active) > 1

\* C33: for each button the key-press and key-release notifications of
\* the keypad alternate, beginning with a press.
C33_PressReleaseAlternate == ghost.retold = {}

\* the applications as ApplicationLauncher::setup wires them
Wiring ==
    {<<"welcome", "mainMenu">>, <<"mainMenu", "snake">>, <<"snake", "pause">>,
     <<"snake", "gameOver">>, <<"pause", "snake">>, <<"pause", "mainMenu">>,
     <<"gameOver", "mainMenu">>}

\* C34: the current application changes only along the wiring of the
\* launcher, and Welcome is activated only at boot, as the first application.
C34_AlongWiring ==
    ghost.hop # <<>> => ghost.hop \in Wiring \cup {<<NULL, "welcome">>}

\* the game gives way to the game-over screen while it was never deactivated
C34_GameToGameOver ==
    /\ ghost.hop = <<"snake", "gameOver">>
    /\ "snake" \in ghost.active

\* C35: the direction of a move of the snake is never the opposite of the
\* direction of its previous move.
C35_NoReversal ==
    \A t \in ghost.turned : t[1] # NoMove => t[2] # opposite(t[1])

\* the snake a new game starts with, tail first
FreshSnake == <<Point(6, 7), Point(7, 7), Point(8, 7)>>

\* C37: an activation of the game that comes from the pause finds snake,
\* direction and apple as they were when the game stopped being current;
\* every other activation starts with the fresh snake heading Right.
C37_ResumedOrFresh ==
    Has(<<"activate", "snake">>) =>
        IF ghost.hop[1] = "pause"
        THEN /\ Body([priv |-> priv]) = ghost.parked.snake
             /\ priv.m_direction = ghost.parked.direction
             /\ priv.m_apple = ghost.parked.apple
        ELSE /\ Body([priv |-> priv]) = FreshSnake
             /\ priv.m_direction = Right

\* the game is resumed from the pause with a snake that has moved
C37_ResumedMoved ==
    /\ Has(<<"activate", "snake">>)
    /\ ghost.hop[1] = "pause"
    /\ Body([priv |-> priv]) # FreshSnake

\* the game is started from the main menu after a game over, or after
\* the pause was left for the main menu with a snake that had moved
C37_StartedAgain ==
    /\ Has(<<"activate", "snake">>)
    /\ ghost.hop[1] = "mainMenu"
    /\ ghost.parked.snake \notin {<<>>, FreshSnake}

\* every cell of the board
Cells == {Point(x, y) : x \in 0..15, y \in 0..15}

\* C36: after makeApple() the apple lies on a cell the snake does not
\* occupy, whenever the snake leaves a cell free; the apple lies under the
\* snake (the fallback (0,0) included) only when the snake covers the board.
C36_AppleOffSnake ==
    pc = "applied" =>
        /\ bench.list[1] = boardSet([priv |-> priv])
        /\ bench.list[1] # Cells => priv.m_apple \notin bench.list[1]
        /\ (priv.m_apple = Point(0, 0) /\ Point(0, 0) \in bench.list[1])
               => bench.list[1] = Cells

\* random(256) gave a cell under the snake, the snake leaves one cell free
\* and the apple lies on it
C36_LastCellFound ==
    /\ pc = "applied"
    /\ bench.oldest \in bench.list[1]
    /\ Cardinality(bench.list[1]) = SnakeCap - 1
    /\ priv.m_apple \notin bench.list[1]

\* C38: in the variant of src/unnamed/part_000, the game started from the
\* main menu begins with the fresh snake heading Right, whatever games were
\* played, paused and resumed before.
C38_FreshAfterGameOver ==
    (priv.part_000 /\ Has(<<"activate", "snake">>) /\ ghost.hop[1] = "mainMenu") =>
        /\ Body([priv |-> priv]) = FreshSnake
        /\ priv.m_direction = Right

====================================================================
